---- MODULE Spec2Model ----
(***************************************************************************)
(* Model of the lexical context engine (src/src/utils/contextUtil.ts) and  *)
(* of the component declaration parser (src/src/entities/component.ts).    *)
(*                                                                         *)
(* A document text is a sequence of one-character strings; the character   *)
(* at the zero-based offset o is text[o + 1].  A Position is a record      *)
(* [line, character], a Range a record [start, end] of Positions.          *)
(*                                                                         *)
(* The operations of the engine are synchronous and pure: each action      *)
(* below is one whole call on the current document, with arguments drawn   *)
(* from bounded sets; it records the call and its return value.            *)
(***************************************************************************)
EXTENDS Integers, Sequences, FiniteSets, TLC

VARIABLES
    doc,      \* the document the calls are made on: its text; for parseComponent
              \* its file name and what the declaration pattern and the external
              \* doc-block and attribute parsers read from it
    env,      \* what the path resolver sees: files, workspace folder, cache
    pc,       \* "idle": no call made; "returned": call and result are set
    call,     \* the operation called and its arguments
    result    \* the value the call returned

vars == <<doc, env, pc, call, result>>

NoCall == [op |-> "none"]
NoResult == <<>>
NoEnv ==
    [fileName |-> <<>>, files |-> {}, workspaceFolder |-> <<>>, cache |-> {},
     docBlock |-> <<>>, attributes |-> <<>>, functions |-> <<>>]

(***************************************************************************)
(* Bounds of the model.                                                    *)
(***************************************************************************)
MaxRangeDocLen == 5     \* longest document handed to invertRanges
MaxRanges == 2          \* longest list of ranges handed to invertRanges
MaxFragments == 4       \* most fragments a document of the comment scans is built from
MaxRangeStart == 1      \* largest start offset of a docRange that does not start the document
MaxScanLen == 4         \* longest generated document of the forward scans

(***************************************************************************)
(* Text-buffer primitives (vscode TextDocument, Position, Range).          *)
(***************************************************************************)
NL == "\n"

Min(a, b) == IF a < b THEN a ELSE b
Max(a, b) == IF a > b THEN a ELSE b

\* The least element of a non-empty set of integers.
Least(S) == CHOOSE x \in S : \A y \in S : x <= y

\* All sequences over S of length 0..n.
SeqsUpTo(S, n) == UNION {[1..k -> S] : k \in 0..n}

\* text[from+1 .. to] (offsets from..to-1), empty when to <= from.
Slice(text, from, to) == SubSeq(text, from + 1, to)

Position(l, c) == [line |-> l, character |-> c]

isBefore(p, q) == p.line < q.line \/ (p.line = q.line /\ p.character < q.character)
isBeforeOrEqual(p, q) == p = q \/ isBefore(p, q)

\* new Range(a, b): the constructor swaps its arguments when b is before a.
Range(a, b) == IF isBefore(b, a) THEN [start |-> b, end |-> a] ELSE [start |-> a, end |-> b]

\* range.contains(positionOrRange): inclusive of both boundaries.
containsPosition(r, p) == isBeforeOrEqual(r.start, p) /\ isBeforeOrEqual(p, r.end)
containsRange(r, s) == containsPosition(r, s.start) /\ containsPosition(r, s.end)

ClampOffset(text, o) == Max(0, Min(o, Len(text)))

\* Offset of the first character of the line that holds offset o.
LineStartOffset(text, o) ==
    LET breaks == {i \in 1..o : text[i] = NL}
    IN IF breaks = {} THEN 0 ELSE CHOOSE i \in breaks : \A j \in breaks : j <= i

\* document.positionAt(offset): offsets outside the text are clamped.
positionAt(text, offset) ==
    LET o == ClampOffset(text, offset)
    IN Position(Cardinality({i \in 1..o : text[i] = NL}), o - LineStartOffset(text, o))

\* document.offsetAt(position): the inverse of positionAt on valid positions;
\* a character past the end of the line is clamped to the end of the line.
offsetAt(text, p) ==
    LET starts == {o \in 0..Len(text) : positionAt(text, o).line = p.line}
    IN IF starts = {} THEN Len(text)
       ELSE LET lo == CHOOSE o \in starts : \A q \in starts : o <= q
                hi == CHOOSE o \in starts : \A q \in starts : q <= o
            IN Max(lo, Min(lo + p.character, hi))

\* The range of the offsets from..to-1.
OffsetRange(text, from, to) == Range(positionAt(text, from), positionAt(text, to))

(***************************************************************************)
(* invertRanges (contextUtil.ts 474-498).                                  *)
(***************************************************************************)
\* The body of ranges.forEach: previousEndPosition moves only in the branch
\* that finds the range adjacent to it; the other branch pushes and returns.
RECURSIVE invertRangesLoop(_, _, _, _)
invertRangesLoop(ranges, i, previousEndPosition, invertedRanges) ==
    IF i > Len(ranges) THEN [previousEndPosition |-> previousEndPosition,
                             invertedRanges |-> invertedRanges]
    ELSE IF previousEndPosition = ranges[i].start
         THEN invertRangesLoop(ranges, i + 1, ranges[i].end, invertedRanges)
         ELSE invertRangesLoop(ranges, i + 1, previousEndPosition,
                  Append(invertedRanges, Range(previousEndPosition, ranges[i].start)))

invertRanges(text, ranges) ==
    LET documentEndPosition == positionAt(text, Len(text))
        after == invertRangesLoop(ranges, 1, Position(0, 0), <<>>)
    IN IF after.previousEndPosition # documentEndPosition
       THEN Append(after.invertedRanges, Range(after.previousEndPosition, documentEndPosition))
       ELSE after.invertedRanges

(***************************************************************************)
(* Regular-expression helpers.  A pattern literal is a text.               *)
(***************************************************************************)
\* The text holds pat at offset i.
MatchAt(text, i, pat) == i >= 0 /\ i + Len(pat) <= Len(text) /\ Slice(text, i, i + Len(pat)) = pat

\* text.endsWith(pat)
endsWith(text, pat) == Len(pat) <= Len(text) /\ MatchAt(text, Len(text) - Len(pat), pat)

\* Least offset >= from at which the text holds pat, or -1.
IndexOfFrom(text, pat, from) ==
    LET hits == {i \in from..Len(text) : MatchAt(text, i, pat)}
    IN IF hits = {} THEN -1 ELSE CHOOSE i \in hits : \A j \in hits : i <= j

\* Successive matches of /open[\s\S]*?close/g from lastIndex on, as offset
\* pairs <<index, index + match length>>: the leftmost open, then the
\* nearest close that starts after it.
RECURSIVE DelimitedMatches(_, _, _, _)
DelimitedMatches(text, open, close, lastIndex) ==
    LET i == IndexOfFrom(text, open, lastIndex)
        j == IF i = -1 THEN -1 ELSE IndexOfFrom(text, close, i + Len(open))
    IN IF j = -1 THEN <<>>
       ELSE <<<<i, j + Len(close)>>>> \o DelimitedMatches(text, open, close, j + Len(close))

\* Successive matches of /\/\/[^\r\n]*/g from lastIndex on: the leftmost
\* "//" and the rest of its line.
RECURSIVE LineCommentMatches(_, _)
LineCommentMatches(text, lastIndex) ==
    LET i == IndexOfFrom(text, <<"/", "/">>, lastIndex)
        e == IF i = -1 THEN -1
             ELSE LET nl == IndexOfFrom(text, <<NL>>, i) IN IF nl = -1 THEN Len(text) ELSE nl
    IN IF i = -1 THEN <<>> ELSE <<<<i, e>>>> \o LineCommentMatches(text, e)

\* cfscriptBlockCommentPattern, cfscriptLineCommentPattern and
\* tagBlockCommentPattern, each run by the while (m = pattern.exec(text)) loop.
cfscriptBlockCommentPattern(text) == DelimitedMatches(text, <<"/", "*">>, <<"*", "/">>, 0)
cfscriptLineCommentPattern(text) == LineCommentMatches(text, 0)
tagBlockCommentPattern(text) == DelimitedMatches(text, <<"<", "!", "-", "-">>, <<"-", "-", ">">>, 0)

(***************************************************************************)
(* The comment delimiters (features/comment.ts, cfmlCommentRules) and the  *)
(* tag pattern (entities/tag.ts, getTagPattern).                           *)
(***************************************************************************)
cfmlCommentRules ==
    [scriptLineComment |-> <<"/", "/">>,
     scriptBlockComment |-> << <<"/", "*">>, <<"*", "/">> >>,
     tagBlockComment |-> << <<"<", "!", "-", "-", "-">>, <<"-", "-", "-", ">">> >>]

WordChars == {"a", "b", "c", "d", "e", "f", "g", "h", "i", "j", "k", "l", "m", "n", "o",
     "p", "q", "r", "s", "t", "u", "v", "w", "x", "y", "z", "A", "B", "C", "D", "E", "F",
     "G", "H", "I", "J", "K", "L", "M", "N", "O", "P", "Q", "R", "S", "T", "U", "V", "W",
     "X", "Y", "Z", "0", "1", "2", "3", "4", "5", "6", "7", "8", "9", "_"}
Whitespace == {" ", NL}

TagOpen(tagName) == <<"<">> \o tagName
TagClose(tagName) == <<"<", "/">> \o tagName \o <<">">>

\* One attempt of /(<tag\b\s*)([^>]*?)(?:>([\s\S]*?)<\/tag>|\/?>)/ at offset i:
\* a record [found, index, prefixLen, bodyLen, end], bodyLen = -1 when group 3
\* did not take part in the match.
TagMatchAt(text, tagName, i) ==
    LET nameEnd == i + Len(TagOpen(tagName))
        boundary == nameEnd = Len(text) \/ (nameEnd < Len(text) /\ text[nameEnd + 1] \notin WordChars)
        nonSpace == {k \in nameEnd..Len(text) : k = Len(text) \/ text[k + 1] \notin Whitespace}
        attrStart == CHOOSE k \in nonSpace : \A m \in nonSpace : k <= m
        gt == IndexOfFrom(text, <<">">>, attrStart)
        selfClosed == gt > attrStart /\ text[gt] = "/"
        close == IF gt = -1 THEN -1 ELSE IndexOfFrom(text, TagClose(tagName), gt + 1)
        none == [found |-> FALSE, index |-> i, prefixLen |-> 0, bodyLen |-> -1, end |-> i]
    IN IF ~(MatchAt(text, i, TagOpen(tagName)) /\ boundary) \/ gt = -1 THEN none
       ELSE IF selfClosed \/ close = -1
            THEN [found |-> TRUE, index |-> i, prefixLen |-> gt - i, bodyLen |-> -1, end |-> gt + 1]
            ELSE [found |-> TRUE, index |-> i, prefixLen |-> gt - i + 1, bodyLen |-> close - (gt + 1),
                  end |-> close + Len(TagClose(tagName))]

\* The matches of the pattern with the g flag, from lastIndex on.
RECURSIVE TagMatches(_, _, _)
TagMatches(text, tagName, lastIndex) ==
    LET hits == {i \in lastIndex..Len(text) : TagMatchAt(text, tagName, i).found}
    IN IF hits = {} THEN <<>>
       ELSE LET m == TagMatchAt(text, tagName, CHOOSE i \in hits : \A j \in hits : i <= j)
            IN <<m>> \o TagMatches(text, tagName, m.end)

(***************************************************************************)
(* getCfScriptRanges (contextUtil.ts 139-166).  An absent range is NoRange.*)
(***************************************************************************)
NoRange == [start |-> Position(-1, -1), end |-> Position(-1, -1)]

\* documentText and textOffset as the range-taking functions compute them.
getText(text, range) ==
    IF range = NoRange THEN text ELSE Slice(text, offsetAt(text, range.start), offsetAt(text, range.end))
textOffsetOf(text, range) == IF range = NoRange THEN 0 ELSE offsetAt(text, range.start)

cfscriptTagName == <<"c", "f", "s", "c", "r", "i", "p", "t">>

getCfScriptRanges(text, range) ==
    LET documentText == getText(text, range)
        textOffset == textOffsetOf(text, range)
        matches == TagMatches(documentText, cfscriptTagName, 0)
        withBody == SelectSeq(matches, LAMBDA m : m.bodyLen > 0)
    IN [k \in 1..Len(withBody) |->
           LET cfscriptBodyStartOffset == textOffset + withBody[k].index + withBody[k].prefixLen
           IN Range(positionAt(text, cfscriptBodyStartOffset),
                    positionAt(text, cfscriptBodyStartOffset + withBody[k].bodyLen))]

\* isInRanges(ranges, range)
isInRanges(ranges, r) == \E k \in 1..Len(ranges) : containsRange(ranges[k], r)

(***************************************************************************)
(* getCommentRangesByRegex (contextUtil.ts 189-240).                       *)
(***************************************************************************)
MatchRanges(text, textOffset, matches) ==
    [k \in 1..Len(matches) |->
        Range(positionAt(text, textOffset + matches[k][1]), positionAt(text, textOffset + matches[k][2]))]

RECURSIVE ConcatAll(_)
ConcatAll(seqs) == IF seqs = <<>> THEN <<>> ELSE Head(seqs) \o ConcatAll(Tail(seqs))

RECURSIVE getCommentRangesByRegex(_, _, _)
getCommentRangesByRegex(text, isScript, docRange) ==
    LET documentText == getText(text, docRange)
        textOffset == textOffsetOf(text, docRange)
    IN IF isScript
       THEN MatchRanges(text, textOffset, cfscriptBlockCommentPattern(documentText))
            \o MatchRanges(text, textOffset, cfscriptLineCommentPattern(documentText))
       ELSE LET cfScriptRanges == getCfScriptRanges(text, docRange)
            IN MatchRanges(text, textOffset, tagBlockCommentPattern(documentText))
               \o ConcatAll([k \in 1..Len(cfScriptRanges) |->
                                getCommentRangesByRegex(text, TRUE, cfScriptRanges[k])])

(***************************************************************************)
(* getCommentRangesIterated (contextUtil.ts 248-393).                      *)
(***************************************************************************)
NoPosition == Position(-1, -1)

\* isStringDelimiter (contextUtil.ts 536-545)
isStringDelimiter(char) == char \in {"'", "\""}

embeddedCFMLDelimiter == "#"

NoStringContext == [inString |-> FALSE, activeStringDelimiter |-> "undefined", embeddedCFML |-> FALSE]
NoCommentContext == [inComment |-> FALSE, activeComment |-> "undefined", commentType |-> "undefined",
                     start |-> NoPosition]

\* A variant that lets the delimiter close the string inside an embedded
\* expression as well.
inStringStepIgnoringEmbedded(stringContext, characterAtPosition) ==
    IF characterAtPosition = embeddedCFMLDelimiter
    THEN [stringContext EXCEPT !.embeddedCFML = ~stringContext.embeddedCFML]
    ELSE IF characterAtPosition = stringContext.activeStringDelimiter
         THEN [inString |-> FALSE, activeStringDelimiter |-> "undefined", embeddedCFML |-> FALSE]
         ELSE stringContext

\* A variant that, at the closing delimiter, clears inString and leaves
\* the rest of the context as it is.
inStringStepKeepingDelimiter(stringContext, characterAtPosition) ==
    IF characterAtPosition = embeddedCFMLDelimiter
    THEN [stringContext EXCEPT !.embeddedCFML = ~stringContext.embeddedCFML]
    ELSE IF ~stringContext.embeddedCFML /\ characterAtPosition = stringContext.activeStringDelimiter
         THEN [stringContext EXCEPT !.inString = FALSE]
         ELSE stringContext

\* A variant in which either quote character closes the string.
inStringStepClosedByAnyQuote(stringContext, characterAtPosition) ==
    IF characterAtPosition = embeddedCFMLDelimiter
    THEN [stringContext EXCEPT !.embeddedCFML = ~stringContext.embeddedCFML]
    ELSE IF ~stringContext.embeddedCFML /\ isStringDelimiter(characterAtPosition)
         THEN NoStringContext
         ELSE stringContext

\* The branch all three scanners take while stringContext.inString holds.
inStringStep(stringContext, characterAtPosition) ==
    IF characterAtPosition = embeddedCFMLDelimiter
    THEN [stringContext EXCEPT !.embeddedCFML = ~stringContext.embeddedCFML]
    ELSE IF ~stringContext.embeddedCFML /\ characterAtPosition = stringContext.activeStringDelimiter
         THEN NoStringContext
         ELSE stringContext

openString(characterAtPosition) ==
    [inString |-> TRUE, activeStringDelimiter |-> characterAtPosition, embeddedCFML |-> FALSE]

\* commentContext.activeComment[1]: activeComment names the rule it was set
\* from.  Indexing the string scriptLineComment gives its second character,
\* indexing the pair tagBlockComment gives its closing delimiter.
activeCommentAt1(activeComment) ==
    IF activeComment = "scriptLineComment"
    THEN <<cfmlCommentRules.scriptLineComment[2]>>
    ELSE cfmlCommentRules.tagBlockComment[2]

\* State of the scan before its first iteration.
IteratedStart ==
    [commentRanges |-> <<>>, previousPosition |-> NoPosition, lineText |-> <<>>,
     commentContext |-> NoCommentContext, stringContext |-> NoStringContext]

\* One iteration of the for loop over the offsets.
IteratedStep(text, isScript, offset, s) ==
    LET position == positionAt(text, offset)
        characterAtPosition == text[offset + 1]
        previousPosition == s.previousPosition
        lineChanged == previousPosition # NoPosition /\ position.line # previousPosition.line
        lineText == (IF lineChanged THEN <<>> ELSE s.lineText) \o <<characterAtPosition>>
        commentContext == s.commentContext
        stringContext == s.stringContext
        t == [s EXCEPT !.lineText = lineText, !.previousPosition = position]
    IN IF commentContext.inComment
       THEN IF commentContext.commentType = "Line" /\ position.line # previousPosition.line
            THEN [t EXCEPT !.commentRanges = Append(@, Range(commentContext.start, previousPosition)),
                           !.commentContext = NoCommentContext]
            ELSE IF /\ commentContext.commentType = "Block"
                    /\ endsWith(lineText, activeCommentAt1(commentContext.activeComment))
                 THEN [t EXCEPT !.commentRanges =
                                    Append(@, Range(commentContext.start, positionAt(text, offset + 1))),
                                !.commentContext = NoCommentContext]
                 ELSE t
       ELSE IF stringContext.inString
       THEN [t EXCEPT !.stringContext = inStringStep(stringContext, characterAtPosition)]
       ELSE IF isScript
            THEN IF isStringDelimiter(characterAtPosition)
                 THEN [t EXCEPT !.stringContext = openString(characterAtPosition)]
                 ELSE IF endsWith(lineText, cfmlCommentRules.scriptLineComment)
                 THEN [t EXCEPT !.commentContext =
                          [inComment |-> TRUE, activeComment |-> "scriptLineComment",
                           commentType |-> "Line", start |-> previousPosition]]
                 ELSE IF endsWith(lineText, cfmlCommentRules.scriptBlockComment[1])
                 THEN [t EXCEPT !.commentContext =
                          [inComment |-> TRUE, activeComment |-> "scriptLineComment",
                           commentType |-> "Block", start |-> previousPosition]]
                 ELSE t
            ELSE IF endsWith(lineText, cfmlCommentRules.tagBlockComment[1])
                 THEN [t EXCEPT !.commentContext =
                          [inComment |-> TRUE, activeComment |-> "tagBlockComment",
                           commentType |-> "Block",
                           start |-> Position(position.line,
                                        position.character + 1 - Len(cfmlCommentRules.tagBlockComment[1]))]]
                 ELSE t

\* The for loop from offset to textOffsetEnd - 1.
RECURSIVE IteratedLoop(_, _, _, _, _)
\* The offset and the state of the next iteration are values, bound
\* through singleton sets, before that iteration starts.
IteratedLoop(text, isScript, offset, textOffsetEnd, s) ==
    IF offset >= textOffsetEnd THEN s
    ELSE CHOOSE r \in {IteratedLoop(text, isScript, o, textOffsetEnd, t) :
                          o \in {offset + 1}, t \in {IteratedStep(text, isScript, offset, s)}} : TRUE

RECURSIVE getCommentRangesIterated(_, _, _)

\* A variant that scans no cfscript body.
AddNoCfScriptComments(text, cfScriptRanges, k, commentRanges) == commentRanges

\* cfScriptRanges.forEach: each cfscript body that no comment range so far
\* contains is scanned in script mode and its comments are appended.
RECURSIVE AddCfScriptComments(_, _, _, _)
AddCfScriptComments(text, cfScriptRanges, k, commentRanges) ==
    IF k > Len(cfScriptRanges) THEN commentRanges
    ELSE AddCfScriptComments(text, cfScriptRanges, k + 1,
             IF ~isInRanges(commentRanges, cfScriptRanges[k])
             THEN commentRanges \o getCommentRangesIterated(text, TRUE, cfScriptRanges[k])
             ELSE commentRanges)

getCommentRangesIterated(text, isScript, docRange) ==
    LET textOffsetStart == IF docRange = NoRange THEN 0 ELSE offsetAt(text, docRange.start)
        textOffsetEnd == IF docRange = NoRange THEN Len(text) ELSE offsetAt(text, docRange.end)
        cfScriptRanges == IF ~isScript THEN getCfScriptRanges(text, docRange) ELSE <<>>
        scanned == IteratedLoop(text, isScript, textOffsetStart, textOffsetEnd, IteratedStart).commentRanges
    IN IF Len(cfScriptRanges) > 0
       THEN AddCfScriptComments(text, cfScriptRanges, 1,
                SelectSeq(scanned, LAMBDA range : ~isInRanges(cfScriptRanges, range)))
       ELSE scanned

\* getCommentRanges (contextUtil.ts 175-181)
getCommentRanges(text, isScript, docRange, fast) ==
    IF fast THEN getCommentRangesByRegex(text, isScript, docRange)
    ELSE getCommentRangesIterated(text, isScript, docRange)

(***************************************************************************)
(* getNextCharacterPosition (contextUtil.ts 555-639) and                   *)
(* getClosingPosition (contextUtil.ts 647-690).  Both read                 *)
(* documentStateContext.sanitizedDocumentText, a text of the length of the *)
(* document, taken here to be the document text itself.                    *)
(***************************************************************************)
characterPairs ==
    << <<"{", "}">>, <<"[", "]">>, <<"(", ")">>, <<"\"", "\"">>, <<"'", "'">>, <<"#", "#">>,
       <<"<", ">">> >>

\* documentText.charAt(offset): the empty string outside the text.
charAt(text, offset) == IF offset >= 0 /\ offset < Len(text) THEN text[offset + 1] ELSE ""

\* pairContext: the unclosed counts of the braces, brackets and parentheses,
\* pairContext[k] counting characterPairs[k].
PairContextStart == <<0, 0, 0>>

\* closingPairs as it would be if the closers that are searched for were
\* subtracted like the others.
closingPairsWithTargets(searchChar) == {characterPairs[k][2] : k \in 1..3}

\* openingPairs and closingPairs: the delimiters that are not searched for.
openingPairs(searchChar) == {characterPairs[k][1] : k \in 1..3} \ searchChar
closingPairs(searchChar) == {characterPairs[k][2] : k \in 1..3} \ searchChar

incrementUnclosedPair(pairContext, openingChar) ==
    [k \in 1..3 |-> IF openingChar = characterPairs[k][1] THEN pairContext[k] + 1 ELSE pairContext[k]]

\* decrementUnclosedPair as it would be with counters that stop at zero.
decrementUnclosedPairClamped(pairContext, closingChar) ==
    [k \in 1..3 |-> IF closingChar = characterPairs[k][2] /\ pairContext[k] > 0
                    THEN pairContext[k] - 1 ELSE pairContext[k]]

decrementUnclosedPair(pairContext, closingChar) ==
    [k \in 1..3 |-> IF closingChar = characterPairs[k][2] THEN pairContext[k] - 1 ELSE pairContext[k]]

\* A variant that looks at the parentheses only.
hasNoUnclosedParentheses(pairContext) == pairContext[3] = 0

hasNoUnclosedPairs(pairContext) == \A k \in 1..3 : pairContext[k] = 0

\* The state of the for loop of getNextCharacterPosition before its first
\* iteration: the string context, the pair context, and whether the loop
\* has returned from inside.
NextCharacterStart ==
    [stringContext |-> NoStringContext, pairContext |-> PairContextStart, found |-> FALSE]

\* One iteration of the loop, at offset.
NextCharacterStep(text, offset, searchChar, s) ==
    IF s.stringContext.inString
    THEN [s EXCEPT !.stringContext = inStringStep(s.stringContext, charAt(text, offset))]
    ELSE IF isStringDelimiter(charAt(text, offset))
    THEN [s EXCEPT !.stringContext = openString(charAt(text, offset))]
    ELSE IF charAt(text, offset) \in openingPairs(searchChar)
    THEN [s EXCEPT !.pairContext = incrementUnclosedPair(s.pairContext, charAt(text, offset))]
    ELSE IF charAt(text, offset) \in closingPairs(searchChar)
    THEN [s EXCEPT !.pairContext = decrementUnclosedPair(s.pairContext, charAt(text, offset))]
    ELSE IF charAt(text, offset) \in searchChar /\ hasNoUnclosedPairs(s.pairContext)
    THEN [s EXCEPT !.found = TRUE]
    ELSE s

\* The for loop of getNextCharacterPosition from offset on; it returns from
\* inside the loop at the first match.
RECURSIVE NextCharacterLoop(_, _, _, _, _, _)
NextCharacterAfter(text, offset, endOffset, searchChar, includeChar, s) ==
    IF s.found
    THEN IF includeChar THEN positionAt(text, offset + 1) ELSE positionAt(text, offset)
    ELSE NextCharacterLoop(text, offset + 1, endOffset, searchChar, includeChar, s)

NextCharacterLoop(text, offset, endOffset, searchChar, includeChar, s) ==
    IF offset >= endOffset THEN positionAt(text, endOffset)
    ELSE NextCharacterAfter(text, offset, endOffset, searchChar, includeChar,
                            NextCharacterStep(text, offset, searchChar, s))

getNextCharacterPosition(text, startOffset, endOffset, searchChar, includeChar) ==
    NextCharacterLoop(text, startOffset, endOffset, searchChar, includeChar, NextCharacterStart)

\* A variant that gives the closing character of the pair.
getClosingCharOfPair(closingChar) ==
    LET holding == {k \in 1..Len(characterPairs) :
                       characterPairs[k][1] = closingChar \/ characterPairs[k][2] = closingChar}
    IN IF holding = {} THEN ""
       ELSE characterPairs[CHOOSE k \in holding : \A m \in holding : k <= m][2]

\* getCharacterPair and getOpeningChar (contextUtil.ts 512-530): the opening
\* character of the first pair that holds the character, "" when none does.
getOpeningChar(closingChar) ==
    LET holding == {k \in 1..Len(characterPairs) :
                       characterPairs[k][1] = closingChar \/ characterPairs[k][2] = closingChar}
    IN IF holding = {} THEN ""
       ELSE characterPairs[CHOOSE k \in holding : \A m \in holding : k <= m][1]

\* An iteration as it would be if the closing character were tested before
\* the opening one.
ClosingStepCloserFirst(text, offset, closingChar, s) ==
    IF s.stringContext.inString
    THEN [s EXCEPT !.stringContext = inStringStep(s.stringContext, charAt(text, offset))]
    ELSE IF isStringDelimiter(charAt(text, offset))
    THEN [s EXCEPT !.stringContext = openString(charAt(text, offset))]
    ELSE IF charAt(text, offset) = closingChar
    THEN IF s.unclosedPairs # 0
         THEN [s EXCEPT !.unclosedPairs = s.unclosedPairs - 1]
         ELSE [s EXCEPT !.found = TRUE]
    ELSE IF charAt(text, offset) = getOpeningChar(closingChar)
    THEN [s EXCEPT !.unclosedPairs = s.unclosedPairs + 1]
    ELSE s

\* The state of the for loop of getClosingPosition before its first
\* iteration.
ClosingStart == [stringContext |-> NoStringContext, unclosedPairs |-> 0, found |-> FALSE]

\* One iteration of the loop, at offset.
ClosingStep(text, offset, closingChar, s) ==
    IF s.stringContext.inString
    THEN [s EXCEPT !.stringContext = inStringStep(s.stringContext, charAt(text, offset))]
    ELSE IF isStringDelimiter(charAt(text, offset))
    THEN [s EXCEPT !.stringContext = openString(charAt(text, offset))]
    ELSE IF charAt(text, offset) = getOpeningChar(closingChar)
    THEN [s EXCEPT !.unclosedPairs = s.unclosedPairs + 1]
    ELSE IF charAt(text, offset) = closingChar
    THEN IF s.unclosedPairs # 0
         THEN [s EXCEPT !.unclosedPairs = s.unclosedPairs - 1]
         ELSE [s EXCEPT !.found = TRUE]
    ELSE s

\* The for loop of getClosingPosition from offset to the end of the text.
RECURSIVE ClosingLoop(_, _, _, _, _)
ClosingAfter(text, offset, initialOffset, closingChar, s) ==
    IF s.found THEN positionAt(text, offset + 1)
    ELSE ClosingLoop(text, offset + 1, initialOffset, closingChar, s)

ClosingLoop(text, offset, initialOffset, closingChar, s) ==
    IF offset >= Len(text) THEN positionAt(text, initialOffset)
    ELSE ClosingAfter(text, offset, initialOffset, closingChar,
                      ClosingStep(text, offset, closingChar, s))

\* A variant that starts reading one character late.
getClosingPositionFromNext(text, initialOffset, closingChar) ==
    ClosingLoop(text, initialOffset + 1, initialOffset, closingChar, ClosingStart)

getClosingPosition(text, initialOffset, closingChar) ==
    ClosingLoop(text, initialOffset, initialOffset, closingChar, ClosingStart)

(***************************************************************************)
(* Component declaration parser (entities/component.ts).                   *)
(*                                                                         *)
(* JavaScript values of mixed type are tagged records: Str(text), Bool(b),  *)
(* UriFile(path), Null, Undefined; Thrown stands for a call that ended by   *)
(* throwing.                                                                *)
(***************************************************************************)
Str(text) == [str |-> text]
Bool(b) == [bool |-> b]
UriFile(fsPath) == [fsPath |-> fsPath]
Null == [null |-> TRUE]
Undefined == [undefined |-> TRUE]
Thrown == [thrown |-> "TypeError"]

\* if (value): a non-empty string, true, or an object.
Truthy(value) == value \notin {Undefined, Null, Str(<<>>), Bool(FALSE)}

COMPONENT_EXT == <<".", "c", "f", "c">>

componentAttributeNames ==
    {"accessors", "alias", "autoindex", "bindingname", "consumes", "displayname", "extends", "hint",
     "httpmethod", "implements", "indexable", "indexlanguage", "initmethod", "mappedsuperclass",
     "namespace", "output", "persistent", "porttypename", "produces", "rest", "restPath",
     "serializable", "serviceaddress", "serviceportname", "style", "wsdlfile", "wsVersion"}

booleanAttributes ==
    {"accessors", "autoindex", "indexable", "mappedsuperclass", "output", "persistent", "rest",
     "serializable"}

UpperLetters == 
    <<"A", "B", "C", "D", "E", "F", "G", "H", "I", "J", "K", "L", "M">> \o
    <<"N", "O", "P", "Q", "R", "S", "T", "U", "V", "W", "X", "Y", "Z">>
LowerLetters == 
    <<"a", "b", "c", "d", "e", "f", "g", "h", "i", "j", "k", "l", "m">> \o
    <<"n", "o", "p", "q", "r", "s", "t", "u", "v", "w", "x", "y", "z">>

\* String.prototype.toLowerCase, one character at a time.
Lower(c) ==
    IF \E k \in 1..26 : UpperLetters[k] = c THEN LowerLetters[CHOOSE k \in 1..26 : UpperLetters[k] = c]
    ELSE c
LowerText(text) == [k \in 1..Len(text) |-> Lower(text[k])]

\* DataType.isTruthy (utils/dataType.ts): "true" and "yes" in any case, "1".
isTruthy(value) == LowerText(value) \in {<<"t", "r", "u", "e">>, <<"y", "e", "s">>, <<"1">>}

(***************************************************************************)
(* COMPONENT_PATTERN (component.ts 16), case-insensitive: an optional doc  *)
(* comment followed by white space (group 2, its content group 3), an      *)
(* optional "<cf" (group 4), the word component or interface (group 5),    *)
(* these together group 1, then every character up to the next ">" or "{"  *)
(* (group 6).  exec returns the leftmost match; a group that took no part  *)
(* in it is <<>>.                                                          *)
(***************************************************************************)
ComponentKeywords == {<<"c", "o", "m", "p", "o", "n", "e", "n", "t">>, <<"i", "n", "t", "e", "r", "f", "a", "c", "e">>}

\* The text holds pat, a lower-case text, at offset i in some case.
MatchAtIgnoreCase(text, i, pat) ==
    i >= 0 /\ i + Len(pat) <= Len(text) /\ \A k \in 1..Len(pat) : Lower(text[i + k]) = pat[k]

\* (component|interface)\b at offset p.
KeywordAt(text, p) ==
    \E kw \in ComponentKeywords :
        MatchAtIgnoreCase(text, p, kw) /\ charAt(text, p + Len(kw)) \notin WordChars

\* The length of the keyword at offset p.
KeywordLenAt(text, p) == Len(CHOOSE kw \in ComponentKeywords : MatchAtIgnoreCase(text, p, kw))

\* The offset of the first ">" or "{" from offset p on, or the end of the text.
AttributesEnd(text, p) == Least({e \in p..Len(text) : e = Len(text) \/ text[e + 1] \in {">", "{"}})

\* The match that starts at offset i and has its keyword, of length typeLen,
\* at typeStart; docEnd is the offset of the end of its doc comment, -1 when
\* it has none, and tagStart the offset behind the doc comment and the white
\* space that follows it.
ComponentMatch(text, i, docEnd, tagStart, typeStart, typeLen) ==
    [found |-> TRUE, index |-> i,
     fullPrefix |-> IF docEnd = -1 THEN <<>> ELSE Slice(text, i, tagStart),
     componentDoc |-> IF docEnd = -1 THEN <<>> ELSE Slice(text, i + 3, docEnd),
     checkTag |-> Slice(text, tagStart, typeStart),
     componentType |-> Slice(text, typeStart, typeStart + typeLen),
     componentAttr |-> Slice(text, typeStart + typeLen, AttributesEnd(text, typeStart + typeLen)),
     attributePrefix |-> Slice(text, i, typeStart + typeLen),
     head |-> Slice(text, i, AttributesEnd(text, typeStart + typeLen))]

\* (<cf)?(component|interface)\b([^>{]*) at offset tagStart: with the "<cf"
\* when the keyword follows it, otherwise without.
KeywordMatchAt(text, i, docEnd, tagStart) ==
    IF MatchAtIgnoreCase(text, tagStart, <<"<", "c", "f">>) /\ KeywordAt(text, tagStart + 3)
    THEN ComponentMatch(text, i, docEnd, tagStart, tagStart + 3, KeywordLenAt(text, tagStart + 3))
    ELSE IF KeywordAt(text, tagStart)
    THEN ComponentMatch(text, i, docEnd, tagStart, tagStart, KeywordLenAt(text, tagStart))
    ELSE [found |-> FALSE]

\* The offset of the first character from p on that is not white space.
SkipWhitespace(text, p) == Least({q \in p..Len(text) : q = Len(text) \/ text[q + 1] \notin Whitespace})

\* The attempt with the doc comment, which ends at docEnd and needs white
\* space behind it.
DocMatchAt(text, i, docEnd) ==
    IF docEnd # -1 /\ SkipWhitespace(text, docEnd + 2) > docEnd + 2
    THEN KeywordMatchAt(text, i, docEnd, SkipWhitespace(text, docEnd + 2))
    ELSE [found |-> FALSE]

\* The first of two attempts that found a match.
FirstFound(first, second) == IF first.found THEN first ELSE second

\* The whole pattern at offset i: first with the doc comment, which runs
\* from "/**" to the first "*/" after it, then without.
ComponentMatchAt(text, i) ==
    FirstFound(DocMatchAt(text, i, IF MatchAt(text, i, <<"/", "*", "*">>)
                                   THEN IndexOfFrom(text, <<"*", "/">>, i + 3) ELSE -1),
               KeywordMatchAt(text, i, -1, i))

\* The match at the least offset from i on that has one.
RECURSIVE ComponentMatchFrom(_, _)
ComponentMatchFrom(text, i) ==
    IF i > Len(text) THEN [found |-> FALSE]
    ELSE FirstFound(ComponentMatchAt(text, i), ComponentMatchFrom(text, i + 1))

COMPONENT_PATTERN_exec(text) == ComponentMatchFrom(text, 0)

(***************************************************************************)
(* componentPathToUri (component.ts 319-344).  env.cache is the external   *)
(* cache: pairs <<dotPath, fsPath>>; env.files the paths that exist;       *)
(* env.workspaceFolder the root of the workspace folder of the referencing *)
(* file, <<>> when it belongs to none.                                     *)
(***************************************************************************)
pathSep == "/"

\* dotPath.replace(/\./g, path.sep)
ReplaceDots(dotPath) == [k \in 1..Len(dotPath) |-> IF dotPath[k] = "." THEN pathSep ELSE dotPath[k]]

LastIndexOf(text, ch) ==
    LET at == {k \in 1..Len(text) : text[k] = ch} IN IF at = {} THEN 0 ELSE CHOOSE k \in at : \A m \in at : m <= k

\* path.dirname, path.basename(p, ext) and path.join on paths without "."
\* and ".." segments.
dirname(p) == SubSeq(p, 1, LastIndexOf(p, pathSep) - 1)
basename(p, ext) ==
    LET file == SubSeq(p, LastIndexOf(p, pathSep) + 1, Len(p))
    IN IF endsWith(file, ext) THEN SubSeq(file, 1, Len(file) - Len(ext)) ELSE file
pathJoin(a, b) == a \o <<pathSep>> \o b

componentPathToUri(dotPath, baseUri, environment) ==
    LET cached == {e \in environment.cache : e[1] = dotPath}
        normalizedPath == ReplaceDots(dotPath) \o COMPONENT_EXT
        baseDir == dirname(baseUri.fsPath)
        localPath == pathJoin(baseDir, normalizedPath)
        root == environment.workspaceFolder
        rootPath == pathJoin(root, normalizedPath)
    IN IF cached # {} THEN UriFile((CHOOSE e \in cached : TRUE)[2])
       ELSE IF localPath \in environment.files THEN UriFile(localPath)
       ELSE IF root = <<>> THEN Thrown        \* root.uri of an undefined root
       ELSE IF rootPath \in environment.files THEN UriFile(rootPath)
       ELSE Undefined

\* getComponentNameFromDotPath (component.ts 350-352)
getComponentNameFromDotPath(path) == SubSeq(path, LastIndexOf(path, ".") + 1, Len(path))

(***************************************************************************)
(* The external parsers.  env.docBlock and env.attributes list the entries *)
(* [key, value, valueRange] the document holds, env.functions its function *)
(* declarations [name, isScript, start]; a parser returns those of the     *)
(* range it is handed.                                                     *)
(***************************************************************************)
parseDocBlock(environment, range) ==
    SelectSeq(environment.docBlock, LAMBDA e : containsRange(range, e.valueRange))

\* A Map from the attribute names among validNames to their attributes.
parseAttributes(environment, range, validNames) ==
    LET inRange == SelectSeq(environment.attributes,
                       LAMBDA e : containsRange(range, e.valueRange) /\ e.key \in validNames)
    IN [key \in {inRange[k].key : k \in 1..Len(inRange)} |->
           inRange[CHOOSE k \in 1..Len(inRange) : inRange[k].key = key]]

parseScriptFunctions(environment) == SelectSeq(environment.functions, LAMBDA f : f.isScript)
parseTagFunctions(environment) == SelectSeq(environment.functions, LAMBDA f : ~f.isScript)

(***************************************************************************)
(* processDocBlock, processAttributes (component.ts 282-312) and           *)
(* parseComponent (component.ts 151-276).  A ComponentAttributes object is *)
(* a function from the keys it has to their values.                        *)
(***************************************************************************)
coerce(key, value) == IF key \in booleanAttributes THEN Bool(isTruthy(value)) ELSE Str(value)

\* Later entries of a key overwrite earlier ones.
processDocBlock(docBlock) ==
    [key \in {docBlock[k].key : k \in 1..Len(docBlock)} |->
        LET at == {k \in 1..Len(docBlock) : docBlock[k].key = key}
        IN coerce(key, docBlock[CHOOSE k \in at : \A m \in at : m <= k].value)]

processAttributes(attributes) == [attrKey \in DOMAIN attributes |-> coerce(attrKey, attributes[attrKey].value)]

\* A variant in which the properties the target already has are kept.
ObjectAssignKeepingTarget(target, source) ==
    [key \in DOMAIN target \cup DOMAIN source |-> IF key \in DOMAIN target THEN target[key] ELSE source[key]]

\* Object.assign(target, source)
ObjectAssign(target, source) ==
    [key \in DOMAIN target \cup DOMAIN source |-> IF key \in DOMAIN source THEN source[key] ELSE target[key]]

\* componentAttributes[propName]
attributeOf(componentAttributes, propName) ==
    IF propName \in DOMAIN componentAttributes THEN componentAttributes[propName] ELSE Undefined

\* The range of the whole extends value.
extendsRangeOfWholeValue(entry) == entry.valueRange

\* The range of the last dotted segment of an extends value.
extendsRangeOf(entry) ==
    Range(Position(entry.valueRange.start.line,
                   entry.valueRange.start.character + Len(entry.value)
                       - Len(getComponentNameFromDotPath(entry.value))),
          entry.valueRange.end)

\* value.split(","), each element trimmed.
RECURSIVE SplitCommas(_)
SplitCommas(text) ==
    LET comma == IndexOfFrom(text, <<",">>, 0)
    IN IF comma = -1 THEN <<text>>
       ELSE <<Slice(text, 0, comma)>> \o SplitCommas(Slice(text, comma + 1, Len(text)))

RECURSIVE trim(_)
trim(text) ==
    IF text # <<>> /\ Head(text) \in Whitespace THEN trim(Tail(text))
    ELSE IF text # <<>> /\ text[Len(text)] \in Whitespace THEN trim(SubSeq(text, 1, Len(text) - 1))
    ELSE text

\* The forEach over the elements of the implements attribute.
RECURSIVE resolveImplements(_, _, _, _, _)
resolveImplements(elements, k, component, baseUri, environment) ==
    IF k > Len(elements) \/ component = Thrown THEN component
    ELSE LET implementsUri == componentPathToUri(trim(elements[k]), baseUri, environment)
         IN resolveImplements(elements, k + 1,
                IF implementsUri = Thrown THEN Thrown
                ELSE IF Truthy(implementsUri)
                THEN [component EXCEPT !["implements"] =
                         [array |-> (IF Truthy(@) THEN @.array ELSE <<>>) \o <<implementsUri>>]]
                ELSE component,
                baseUri, environment)

\* One call of the callback of Object.getOwnPropertyNames(component).forEach.
applyAttribute(component, propName, componentAttributes, baseUri, environment) ==
    IF ~Truthy(attributeOf(componentAttributes, propName)) THEN component
    ELSE IF propName = "extends"
    THEN LET uri == componentPathToUri(componentAttributes["extends"].str, baseUri, environment)
         IN IF uri = Thrown THEN Thrown ELSE [component EXCEPT !["extends"] = uri]
    ELSE IF propName = "implements"
    THEN resolveImplements(SplitCommas(componentAttributes["implements"].str), 1, component,
                           baseUri, environment)
    ELSE IF propName = "persistent" /\ Truthy(attributeOf(componentAttributes, "persistent"))
    THEN [component EXCEPT !["accessors"] = Bool(TRUE)]
    ELSE [component EXCEPT ![propName] = componentAttributes[propName]]

RECURSIVE applyAttributes(_, _, _, _, _, _)
applyAttributes(propNames, k, component, componentAttributes, baseUri, environment) ==
    IF k > Len(propNames) \/ component = Thrown THEN component
    ELSE applyAttributes(propNames, k + 1,
             applyAttribute(component, propNames[k], componentAttributes, baseUri, environment),
             componentAttributes, baseUri, environment)

\* The property names of the component literal, in the order it lists them.
componentLiteralNames ==
    <<"uri", "name", "isScript", "isInterface", "declarationRange", "displayname", "hint",
      "extends", "implements", "accessors", "functions", "properties", "variables">>

\* Object.getOwnPropertyNames(component): extendsRange, when it was assigned,
\* comes after the properties of the literal.
getOwnPropertyNames(component) ==
    componentLiteralNames \o (IF "extendsRange" \in DOMAIN component THEN <<"extendsRange">> ELSE <<>>)

\* component[name] = value, adding the property when it is new.
SetProperty(component, name, value) ==
    [key \in DOMAIN component \cup {name} |-> IF key = name THEN value ELSE component[key]]

\* componentFunctions.set(name.toLowerCase(), compFun) for each function in
\* turn: the last function set under a key stays.
functionsMap(userFunctions) ==
    [key \in {LowerText(userFunctions[k].name) : k \in 1..Len(userFunctions)} |->
        LET at == {k \in 1..Len(userFunctions) : LowerText(userFunctions[k].name) = key}
        IN userFunctions[CHOOSE k \in at : \A m \in at : m <= k]]

RECURSIVE earliestStart(_, _, _)
earliestStart(userFunctions, k, earliestFunctionRangeStart) ==
    IF k > Len(userFunctions) THEN earliestFunctionRangeStart
    ELSE earliestStart(userFunctions, k + 1,
             IF isBefore(userFunctions[k].start, earliestFunctionRangeStart)
             THEN userFunctions[k].start ELSE earliestFunctionRangeStart)

\* if (componentDoc) { parseDocBlock(...) } (component.ts 190-197)
parsedDocBlockOf(text, environment, componentMatch) ==
    IF componentMatch.componentDoc # <<>>
    THEN parseDocBlock(environment,
             Range(positionAt(text, componentMatch.index + 3),
                   positionAt(text, componentMatch.index + 3 + Len(componentMatch.componentDoc))))
    ELSE <<>>

\* if (componentAttr) { parseAttributes(...) } (component.ts 212-219)
parsedAttributesOf(text, environment, componentMatch) ==
    LET componentAttributePrefixOffset == componentMatch.index + Len(componentMatch.attributePrefix)
    IN IF componentMatch.componentAttr # <<>>
       THEN parseAttributes(environment,
                Range(positionAt(text, componentAttributePrefixOffset),
                      positionAt(text, componentAttributePrefixOffset + Len(componentMatch.componentAttr))),
                componentAttributeNames)
       ELSE <<>>

\* componentAttributes after both Object.assign calls (component.ts 199, 222).
componentAttributesOf(text, environment, componentMatch) ==
    ObjectAssign(processDocBlock(parsedDocBlockOf(text, environment, componentMatch)),
                 processAttributes(parsedAttributesOf(text, environment, componentMatch)))

\* The component literal (component.ts 165-188).
componentLiteral(text, environment, componentMatch, declarationStartOffset) ==
    [uri |-> UriFile(environment.fileName),
     name |-> Str(basename(environment.fileName, COMPONENT_EXT)),
     isScript |-> Bool(componentMatch.checkTag = <<>>),
     isInterface |-> Bool(componentMatch.componentType = <<"i", "n", "t", "e", "r", "f", "a", "c", "e">>),
     declarationRange |-> Range(positionAt(text, declarationStartOffset),
                                positionAt(text, declarationStartOffset
                                                     + Len(componentMatch.componentType))),
     displayname |-> Str(<<>>),
     hint |-> Str(<<>>),
     extends |-> Null,
     implements |-> Null,
     accessors |-> Bool(FALSE),
     functions |-> <<>>,
     properties |-> [parseProperties |-> "document"],
     variables |-> <<>>]

\* component.extendsRange from the extends entries of the doc comment, the
\* last one winning (component.ts 201-209).
withDocExtendsRange(component, docExtends) ==
    IF docExtends # <<>>
    THEN SetProperty(component, "extendsRange", extendsRangeOf(docExtends[Len(docExtends)]))
    ELSE component

\* component.extendsRange from the extends attribute (component.ts 224-231).
withAttributeExtendsRange(component, parsedAttributes) ==
    IF "extends" \in DOMAIN parsedAttributes
    THEN SetProperty(component, "extendsRange", extendsRangeOf(parsedAttributes["extends"]))
    ELSE component

\* The loop over the own property names of the component (component.ts 234-254).
applyComponentAttributes(component, componentAttributes, baseUri, environment) ==
    applyAttributes(getOwnPropertyNames(component), 1, component, componentAttributes, baseUri,
                    environment)

\* component.functions and component.variables (component.ts 256-272).
withFunctionsAndVariables(text, component, componentMatch, userFunctions) ==
    IF component = Thrown THEN Thrown
    ELSE [component EXCEPT
             !["functions"] = functionsMap(userFunctions),
             !["variables"] =
                 [parseVariables |-> "document", isScript |-> componentMatch.checkTag = <<>>,
                  range |-> Range(positionAt(text, Len(componentMatch.head)),
                                  earliestStart(userFunctions, 1, positionAt(text, Len(text))))]]

\* The body of if (componentMatch).
parseMatchedComponent(text, environment, componentMatch) ==
    withFunctionsAndVariables(text,
        applyComponentAttributes(
            withAttributeExtendsRange(
                withDocExtendsRange(
                    componentLiteral(text, environment, componentMatch,
                        componentMatch.index + Len(componentMatch.fullPrefix)
                            + Len(componentMatch.checkTag)),
                    SelectSeq(parsedDocBlockOf(text, environment, componentMatch),
                              LAMBDA e : e.key = "extends")),
                parsedAttributesOf(text, environment, componentMatch)),
            componentAttributesOf(text, environment, componentMatch),
            UriFile(environment.fileName), environment),
        componentMatch,
        parseScriptFunctions(environment) \o parseTagFunctions(environment))

parseMatchedOrUndefined(text, environment, componentMatch) ==
    IF componentMatch.found THEN parseMatchedComponent(text, environment, componentMatch)
    ELSE Undefined

parseComponent(text, environment) ==
    parseMatchedOrUndefined(text, environment, COMPONENT_PATTERN_exec(text))

(***************************************************************************)
(* Inputs of invertRanges: documents over a letter and the line break, and *)
(* the sorted lists of non-empty, non-overlapping ranges of a document.    *)
(***************************************************************************)
RangeDocs == SeqsUpTo({"a", NL}, MaxRangeDocLen)

\* Lists of offset pairs <<from, to>>, from < to, each starting at or after
\* the end of the one before.
SortedOffsetLists(len) ==
    {s \in SeqsUpTo((0..len) \X (0..len), MaxRanges) :
        /\ \A i \in 1..Len(s) : s[i][1] < s[i][2]
        /\ \A i \in 1..(Len(s) - 1) : s[i][2] <= s[i + 1][1]}

SortedRangeLists(text) ==
    {[i \in 1..Len(s) |-> OffsetRange(text, s[i][1], s[i][2])] : s \in SortedOffsetLists(Len(text))}

(***************************************************************************)
(* Actions.                                                                *)
(***************************************************************************)
InvertRanges ==
    /\ pc = "idle"
    /\ \E ranges \in SortedRangeLists(doc) :
          /\ call' = [op |-> "invertRanges", ranges |-> ranges]
          /\ result' = invertRanges(doc, ranges)
    /\ pc' = "returned"
    /\ UNCHANGED <<doc, env>>

\* The caller takes the result; the document is ready for the next call.
Return ==
    /\ pc = "returned"
    /\ pc' = "idle"
    /\ call' = NoCall
    /\ result' = NoResult
    /\ UNCHANGED <<doc, env>>

(***************************************************************************)
(* Inputs of getCommentRanges: documents built from the lexical fragments  *)
(* of the script and of the tag syntax, and the documents of the scenarios *)
(* the specification describes.                                            *)
(***************************************************************************)
ScriptFragments ==
    { <<"/", "/">>, <<"/", "*">>, <<"*", "/">>, <<"/">>, <<NL>>, <<"a">>,
      <<"\"">>, <<"\"", "/", "/", "\"">> }

TagFragments ==
    { TagOpen(cfscriptTagName) \o <<">">>, TagClose(cfscriptTagName),
      cfmlCommentRules.tagBlockComment[1], cfmlCommentRules.tagBlockComment[2],
      <<"-", "-", ">">>, <<"/", "/">>, <<NL>>, <<"a">> }

DocsFrom(fragments) == {ConcatAll(fs) : fs \in SeqsUpTo(fragments, MaxFragments)}

ScenarioDocs ==
    { \* a line comment, then a line that starts with a string holding "//"
      <<"/", "/", "a", NL, "\"", "/", "/", "\"", NL, "x">>,
      \* a block comment whose body holds a "/"
      <<"/", "*", "a", "/", "b", "*", "/">>,
      \* a cfscript body that holds a tag comment and a line comment
      TagOpen(cfscriptTagName) \o <<">">> \o cfmlCommentRules.tagBlockComment[1]
          \o cfmlCommentRules.tagBlockComment[2] \o <<"/", "/", "a", NL, "b">>
          \o TagClose(cfscriptTagName),
      \* a tag comment that holds a cfscript body with a line comment
      cfmlCommentRules.tagBlockComment[1] \o TagOpen(cfscriptTagName)
          \o <<">", "/", "/", "a", NL, "b">> \o TagClose(cfscriptTagName)
          \o cfmlCommentRules.tagBlockComment[2] }

CommentDocs == DocsFrom(ScriptFragments) \cup DocsFrom(TagFragments) \cup ScenarioDocs

\* The docRange argument: absent, or a range that cuts the first characters
\* or the last character off the document.
DocRanges(text) ==
    {NoRange} \cup {OffsetRange(text, a, Len(text)) : a \in 1..Min(MaxRangeStart, Len(text))}
              \cup {OffsetRange(text, 0, Len(text) - 1) : a \in 1..Min(1, Len(text))}

GetCommentRanges ==
    /\ pc = "idle"
    /\ \E isScript \in BOOLEAN, fast \in BOOLEAN, docRange \in DocRanges(doc) :
          /\ call' = [op |-> "getCommentRanges", isScript |-> isScript, docRange |-> docRange,
                      fast |-> fast]
          /\ result' = getCommentRanges(doc, isScript, docRange, fast)
    /\ pc' = "returned"
    /\ UNCHANGED <<doc, env>>

InitComments == doc \in CommentDocs /\ env = NoEnv /\ pc = "idle" /\ call = NoCall /\ result = NoResult
NextComments == GetCommentRanges \/ Return
SpecComments == InitComments /\ [][NextComments]_vars

(***************************************************************************)
(* Inputs of the forward scans: every text up to MaxScanLen over the       *)
(* delimiters the scans react to, and the two texts the specification      *)
(* gives as scenarios.                                                     *)
(***************************************************************************)
ScanChars == {"(", ")", "{", "}", ",", "\"", "'", "#"}

NestedCallDoc ==     \* f(a, b(c, d), e)
    <<"f", "(", "a", ",", " ", "b", "(", "c", ",", " ", "d", ")", ",", " ", "e", ")">>
NestedStructDoc ==   \* {a: {b: 1}, c: 2}
    <<"{", "a", ":", " ", "{", "b", ":", " ", "1", "}", ",", " ", "c", ":", " ", "2", "}">>

\* Texts over the brackets and angle brackets, with a quote.
BracketChars == {"[", "]", "<", ">", "\""}

ScanDocs ==
    SeqsUpTo(ScanChars, MaxScanLen) \cup SeqsUpTo(BracketChars, MaxScanLen)
        \cup {NestedCallDoc, NestedStructDoc}

\* The char argument: one character or a list of characters.
SearchChars == { {","}, {")"}, {",", ")"}, {"\""}, {",", "\""}, {"}"}, {"]"} }
ClosingChars == {"}", "]", ")", ">"}
\* The characters of the pairs whose opening and closing character are the
\* same.
SelfPairedChars == {"\"", "'", "#"}

GetNextCharacterPosition ==
    /\ pc = "idle"
    /\ \E startOffset \in 0..Len(doc), searchChar \in SearchChars, includeChar \in BOOLEAN :
       \E endOffset \in {e \in {Len(doc) - 1, Len(doc)} : e >= startOffset} :
          /\ call' = [op |-> "getNextCharacterPosition", startOffset |-> startOffset,
                      endOffset |-> endOffset, char |-> searchChar, includeChar |-> includeChar]
          /\ result' = getNextCharacterPosition(doc, startOffset, endOffset, searchChar, includeChar)
    /\ pc' = "returned"
    /\ UNCHANGED <<doc, env>>

GetClosingPosition ==
    /\ pc = "idle"
    /\ \E initialOffset \in 0..Len(doc), closingChar \in ClosingChars \cup SelfPairedChars :
          /\ call' = [op |-> "getClosingPosition", initialOffset |-> initialOffset,
                      closingChar |-> closingChar]
          /\ result' = getClosingPosition(doc, initialOffset, closingChar)
    /\ pc' = "returned"
    /\ UNCHANGED <<doc, env>>

InitScan == doc \in ScanDocs /\ env = NoEnv /\ pc = "idle" /\ call = NoCall /\ result = NoResult
NextScan == GetNextCharacterPosition \/ GetClosingPosition \/ Return
SpecScan == InitScan /\ [][NextScan]_vars

InitRanges == doc \in RangeDocs /\ env = NoEnv /\ pc = "idle" /\ call = NoCall /\ result = NoResult
NextRanges == InvertRanges \/ Return
SpecRanges == InitRanges /\ [][NextRanges]_vars

(***************************************************************************)
(* Inputs of parseComponent: component files written from a declaration    *)
(* (leading text, optional doc comment, tag or script form, keyword,       *)
(* attribute list, functions) together with the file system around them.   *)
(* RenderComponent writes the text and lists, with their ranges in that    *)
(* text, the entries the external parsers find in it.                      *)
(***************************************************************************)
MaxAttributes == 2      \* longest attribute list of a declaration
MaxDocEntries == 1      \* most entries of a doc comment
MaxFunctions == 2       \* most functions of a component

Entry(key, keyText, value) == [key |-> key, keyText |-> keyText, value |-> value]

\* The attributes a declaration may list, in the order it lists them.
AttributePool ==
    <<Entry("extends", <<"e", "x", "t", "e", "n", "d", "s">>, <<"p", "k", "g", ".", "B", "a", "s", "e">>),
     Entry("persistent", <<"p", "e", "r", "s", "i", "s", "t", "e", "n", "t">>, <<"t", "r", "u", "e">>),
     Entry("persistent", <<"p", "e", "r", "s", "i", "s", "t", "e", "n", "t">>, <<"n", "o">>),
     Entry("accessors", <<"a", "c", "c", "e", "s", "s", "o", "r", "s">>, <<"t", "r", "u", "e">>),
     Entry("hint", <<"h", "i", "n", "t">>, <<"h">>),
     Entry("implements", <<"i", "m", "p", "l", "e", "m", "e", "n", "t", "s">>, <<"p", "k", "g", ".", "B", "a", "s", "e", ",", " ", "J">>)>>

DocEntryPool ==
    {Entry("persistent", <<"p", "e", "r", "s", "i", "s", "t", "e", "n", "t">>, <<"t", "r", "u", "e">>),
     Entry("extends", <<"e", "x", "t", "e", "n", "d", "s">>, <<"p", "k", "g", ".", "B", "a", "s", "e">>),
     Entry("name", <<"n", "a", "m", "e">>, <<"n">>),
     Entry("initmethod", <<"i", "n", "i", "t", "m", "e", "t", "h", "o", "d">>, <<"i">>)}

KeywordPool ==
    {<<"c", "o", "m", "p", "o", "n", "e", "n", "t">>, <<"i", "n", "t", "e", "r", "f", "a", "c", "e">>,
     <<"I", "n", "t", "e", "r", "f", "a", "c", "e">>, <<"I", "N", "T", "E", "R", "F", "A", "C", "E">>}
LeadPool == {<<>>, <<NL>>}
\* The functions a component may declare: script style (function f(){}) or
\* tag style (a cffunction tag), under names that are equal ignoring case.
FunctionPool ==
    {[name |-> <<"f">>, isScript |-> TRUE], [name |-> <<"F">>, isScript |-> TRUE],
     [name |-> <<"F">>, isScript |-> FALSE]}

\* The lists of at most MaxAttributes attributes of the pool, in pool order.
AttributeLists ==
    {[k \in 1..Len(picks) |-> AttributePool[picks[k]]] :
        picks \in {q \in SeqsUpTo(1..Len(AttributePool), MaxAttributes) :
                      \A k \in 1..(Len(q) - 1) : q[k] < q[k + 1]}}

DistinctKeys(entries) == \A i, j \in 1..Len(entries) : entries[i].key = entries[j].key => i = j

ComponentDeclarations ==
    {d \in [lead : LeadPool,
            hasDoc : BOOLEAN,
            docEntries : SeqsUpTo(DocEntryPool, MaxDocEntries),
            isTag : BOOLEAN,
            keyword : KeywordPool,
            attributes : AttributeLists,
            functions : SeqsUpTo(FunctionPool, MaxFunctions)] :
        /\ d.docEntries # <<>> => d.hasDoc
        /\ DistinctKeys(d.attributes)}

\* " * @key value" and a line break
DocLine(e) == <<" ", "*", " ", "@">> \o e.keyText \o <<" ">> \o e.value \o <<NL>>
\* key="value" after a space
AttributeText(e) == <<" ">> \o e.keyText \o <<"=", "\"">> \o e.value \o <<"\"">>
ScriptFunctionText(name) == <<" ">> \o <<"f", "u", "n", "c", "t", "i", "o", "n", " ">> \o name \o <<"(", ")", "{", "}">>
TagFunctionText(name) == <<"<", "c", "f", "f", "u", "n", "c", "t", "i", "o", "n", " ", "n", "a", "m", "e", "=", "\"">> \o name \o <<"\"", ">", "<", "/", "c", "f", "f", "u", "n", "c", "t", "i", "o", "n", ">">>

RECURSIVE LenAll(_)
LenAll(seqs) == IF seqs = <<>> THEN 0 ELSE Len(Head(seqs)) + LenAll(Tail(seqs))

RenderComponent(d) ==
    LET docOpen == IF d.hasDoc THEN <<"/", "*", "*", NL>> ELSE <<>>
        docLines == [k \in 1..Len(d.docEntries) |-> DocLine(d.docEntries[k])]
        docClose == IF d.hasDoc THEN <<" ", "*", "/", NL>> ELSE <<>>
        declaration == (IF d.isTag THEN <<"<", "c", "f">> ELSE <<>>) \o d.keyword
        attributeTexts == [k \in 1..Len(d.attributes) |-> AttributeText(d.attributes[k])]
        headClose == IF d.isTag THEN <<">">> ELSE <<" ", "{">>
        functionTexts == [k \in 1..Len(d.functions) |->
                             IF d.functions[k].isScript THEN ScriptFunctionText(d.functions[k].name)
                             ELSE TagFunctionText(d.functions[k].name)]
        bodyClose == IF d.isTag THEN <<"<", "/", "c", "f", "c", "o", "m", "p", "o", "n", "e", "n", "t", ">">> ELSE <<" ", "}">>
        docStart == Len(d.lead) + Len(docOpen)
        attributeStart == docStart + LenAll(docLines) + Len(docClose) + Len(declaration)
        functionStart == attributeStart + LenAll(attributeTexts) + Len(headClose)
        text == d.lead \o docOpen \o ConcatAll(docLines) \o docClose \o declaration
                    \o ConcatAll(attributeTexts) \o headClose \o ConcatAll(functionTexts) \o bodyClose
        valueAt(e, offset) ==
            [key |-> e.key, value |-> e.value,
             valueRange |-> Range(positionAt(text, offset), positionAt(text, offset + Len(e.value)))]
    IN [text |-> text,
        docBlock |-> [k \in 1..Len(d.docEntries) |->
            valueAt(d.docEntries[k],
                    docStart + LenAll(SubSeq(docLines, 1, k - 1)) + 4 + Len(d.docEntries[k].keyText) + 1)],
        attributes |-> [k \in 1..Len(d.attributes) |->
            valueAt(d.attributes[k],
                    attributeStart + LenAll(SubSeq(attributeTexts, 1, k - 1)) + 1
                        + Len(d.attributes[k].keyText) + 2)],
        functions |-> [k \in 1..Len(d.functions) |->
            [name |-> d.functions[k].name, isScript |-> d.functions[k].isScript,
             start |-> positionAt(text, functionStart + LenAll(SubSeq(functionTexts, 1, k - 1))
                                            + (IF d.functions[k].isScript THEN 1 ELSE 0))]]]

\* The file being parsed, the files that exist beside it, its workspace
\* folder (none for a file outside every folder) and the resolution cache.
ComponentFileName == <<"/", "w", "/", "d", "/", "A", ".", "c", "f", "c">>
WorkspaceRoot == <<"/", "w">>
LocalBase == <<"/", "w", "/", "d", "/", "p", "k", "g", "/", "B", "a", "s", "e", ".", "c", "f", "c">>
RootBase == <<"/", "w", "/", "p", "k", "g", "/", "B", "a", "s", "e", ".", "c", "f", "c">>
RootJ == <<"/", "w", "/", "J", ".", "c", "f", "c">>
CachedBase == <<"/", "c", "/", "B", "a", "s", "e", ".", "c", "f", "c">>

FileSystems ==
    {[files |-> {}, workspaceFolder |-> WorkspaceRoot, cache |-> {}],
     [files |-> {LocalBase, RootBase}, workspaceFolder |-> WorkspaceRoot, cache |-> {}],
     [files |-> {RootBase, RootJ}, workspaceFolder |-> WorkspaceRoot, cache |-> {}],
     [files |-> {}, workspaceFolder |-> <<>>, cache |-> {<<<<"p", "k", "g", ".", "B", "a", "s", "e">>, CachedBase>>}]}

ComponentEnv(rendered, fs) ==
    [fileName |-> ComponentFileName, files |-> fs.files, workspaceFolder |-> fs.workspaceFolder,
     cache |-> fs.cache, docBlock |-> rendered.docBlock, attributes |-> rendered.attributes,
     functions |-> rendered.functions]

DotPaths == {<<"p", "k", "g", ".", "B", "a", "s", "e">>, <<"J">>}

ParseComponent ==
    /\ pc = "idle"
    /\ call' = [op |-> "parseComponent"]
    /\ result' = parseComponent(doc, env)
    /\ pc' = "returned"
    /\ UNCHANGED <<doc, env>>

ComponentPathToUri ==
    /\ pc = "idle"
    /\ \E dotPath \in DotPaths :
          /\ call' = [op |-> "componentPathToUri", dotPath |-> dotPath]
          /\ result' = componentPathToUri(dotPath, UriFile(env.fileName), env)
    /\ pc' = "returned"
    /\ UNCHANGED <<doc, env>>

\* A declaration names other components in its extends and implements
\* entries; the file system matters to parseComponent for those only.
NamesComponents(d) ==
    \/ \E k \in 1..Len(d.attributes) : d.attributes[k].key \in {"extends", "implements"}
    \/ \E k \in 1..Len(d.docEntries) : d.docEntries[k].key \in {"extends", "implements"}

InitComponent ==
    /\ \E d \in ComponentDeclarations :
       \E rendered \in {RenderComponent(d)} :
       \E fs \in FileSystems :
          /\ NamesComponents(d) \/ fs.files = {LocalBase, RootBase}
          /\ doc = rendered.text
          /\ env = ComponentEnv(rendered, fs)
    /\ pc = "idle"
    /\ call = NoCall
    /\ result = NoResult
NextComponent == ParseComponent \/ ComponentPathToUri \/ Return
SpecComponent == InitComponent /\ [][NextComponent]_vars

(***************************************************************************)
(* BackwardIterator (contextUtil.ts 48-101) and readArguments              *)
(* (contextUtil.ts 740-786).  A character code is the character itself;    *)
(* NUL is the character of code 0 and NaN what charCodeAt gives outside    *)
(* the line.                                                               *)
(***************************************************************************)
MaxArgumentsLen == 4

NUL == "\\0"
NaN == "NaN"
NEW_LINE == NL
LEFT_BRACKET == "["
RIGHT_BRACKET == "]"
LEFT_BRACE == "{"
RIGHT_BRACE == "}"
LEFT_PAREN == "("
RIGHT_PAREN == ")"
COMMA == ","
SINGLE_QUOTE == "'"
DOUBLE_QUOTE == "\""
BOF == NUL

charCodeAt(string, index) ==
    IF 0 <= index /\ index < Len(string) THEN string[index + 1] ELSE NaN

fromCharCode(code) == IF code = NaN THEN NUL ELSE code

\* document.lineAt(line).text: the line without its line break.
RECURSIVE lineStart(_, _, _)
lineStart(text, line, o) ==
    IF line = 0 \/ o >= Len(text) THEN o
    ELSE lineStart(text, IF text[o + 1] = NL THEN line - 1 ELSE line, o + 1)

RECURSIVE lineEnd(_, _)
lineEnd(text, o) == IF o >= Len(text) \/ text[o + 1] = NL THEN o ELSE lineEnd(text, o + 1)

lineAt(text, line) == Slice(text, lineStart(text, line, 0), lineEnd(text, lineStart(text, line, 0)))

\* new BackwardIterator(document, position)
BackwardIterator(text, position) ==
    [lineNumber |-> position.line,
     lineCharacterOffset |-> position.character,
     lineText |-> lineAt(text, position.line)]

hasNext(iterator) == iterator.lineNumber >= 0

\* next(): the code returned and the iterator afterwards.
next(text, iterator) ==
    IF iterator.lineCharacterOffset < 0
    THEN IF iterator.lineNumber - 1 >= 0
         THEN [code |-> NEW_LINE,
               iterator |-> [lineNumber |-> iterator.lineNumber - 1,
                             lineCharacterOffset |-> Len(lineAt(text, iterator.lineNumber - 1)) - 1,
                             lineText |-> lineAt(text, iterator.lineNumber - 1)]]
         ELSE [code |-> BOF,
               iterator |-> [iterator EXCEPT !.lineNumber = iterator.lineNumber - 1]]
    ELSE [code |-> charCodeAt(iterator.lineText, iterator.lineCharacterOffset),
          iterator |-> [iterator EXCEPT !.lineCharacterOffset = iterator.lineCharacterOffset - 1]]

\* new Position(line, character) of the editor API, which refuses a
\* negative line or character.
IllegalArgument == [thrown |-> "illegalArgument"]

newPosition(line, character) ==
    IF line < 0 \/ character < 0 THEN IllegalArgument ELSE Position(line, character)

getPosition(iterator) == newPosition(iterator.lineNumber, iterator.lineCharacterOffset)

unshift(array, element) == <<element>> \o array
shift(array) == Tail(array)

\* The inner loop of the quote case: unshifts up to and including the next
\* occurrence of the quote ch, or up to the beginning of the document.
RECURSIVE quoteLoop(_, _, _, _)
quoteStep(text, read, currArg, ch) ==
    IF ch = read.code
    THEN [iterator |-> read.iterator, currArg |-> unshift(currArg, fromCharCode(read.code))]
    ELSE quoteLoop(text, read.iterator, unshift(currArg, fromCharCode(read.code)), ch)

quoteLoop(text, iterator, currArg, ch) ==
    IF hasNext(iterator) THEN quoteStep(text, next(text, iterator), currArg, ch)
    ELSE [iterator |-> iterator, currArg |-> currArg]

\* The loop of readArguments over the state of its local variables; the
\* value is what is returned and the iterator as it is left.
RECURSIVE readArgumentsLoop(_, _)
afterQuote(text, s, quoted) ==
    readArgumentsLoop(text, [s EXCEPT !.iterator = quoted.iterator, !.currArg = quoted.currArg])

readArgumentsSwitch(text, s, read, currArg) ==
    CASE read.code = LEFT_PAREN ->
            IF s.parenNesting - 1 < 0
            THEN [value |-> unshift(s.allArgs, trim(shift(currArg))), iterator |-> read.iterator]
            ELSE readArgumentsLoop(text, [s EXCEPT !.iterator = read.iterator, !.currArg = currArg,
                                                   !.parenNesting = s.parenNesting - 1])
      [] read.code = RIGHT_PAREN ->
            readArgumentsLoop(text, [s EXCEPT !.iterator = read.iterator, !.currArg = currArg,
                                              !.parenNesting = s.parenNesting + 1])
      [] read.code = LEFT_BRACE ->
            readArgumentsLoop(text, [s EXCEPT !.iterator = read.iterator, !.currArg = currArg,
                                              !.braceNesting = s.braceNesting - 1])
      [] read.code = RIGHT_BRACE ->
            readArgumentsLoop(text, [s EXCEPT !.iterator = read.iterator, !.currArg = currArg,
                                              !.braceNesting = s.braceNesting + 1])
      [] read.code = LEFT_BRACKET ->
            readArgumentsLoop(text, [s EXCEPT !.iterator = read.iterator, !.currArg = currArg,
                                              !.bracketNesting = s.bracketNesting - 1])
      [] read.code = RIGHT_BRACKET ->
            readArgumentsLoop(text, [s EXCEPT !.iterator = read.iterator, !.currArg = currArg,
                                              !.bracketNesting = s.bracketNesting + 1])
      [] read.code \in {DOUBLE_QUOTE, SINGLE_QUOTE} ->
            afterQuote(text, s, quoteLoop(text, read.iterator,
                                          unshift(currArg, fromCharCode(read.code)), read.code))
      [] read.code = COMMA ->
            IF s.parenNesting = 0 /\ s.bracketNesting = 0 /\ s.braceNesting = 0
            THEN readArgumentsLoop(text, [s EXCEPT !.iterator = read.iterator, !.currArg = <<>>,
                                                   !.allArgs = unshift(s.allArgs, trim(shift(currArg)))])
            ELSE readArgumentsLoop(text, [s EXCEPT !.iterator = read.iterator, !.currArg = currArg])
      [] OTHER -> readArgumentsLoop(text, [s EXCEPT !.iterator = read.iterator, !.currArg = currArg])

readArgumentsRead(text, s, read) ==
    readArgumentsSwitch(text, s, read, unshift(s.currArg, fromCharCode(read.code)))

\* The loop as it would be if the arguments split off so far were returned
\* when the beginning of the document is reached.
readArgumentsLoopKeepingArguments(text, s) ==
    IF hasNext(s.iterator) THEN readArgumentsRead(text, s, next(text, s.iterator))
    ELSE [value |-> s.allArgs, iterator |-> s.iterator]

readArgumentsLoop(text, s) ==
    IF hasNext(s.iterator) THEN readArgumentsRead(text, s, next(text, s.iterator))
    ELSE [value |-> <<>>, iterator |-> s.iterator]

readArguments(text, iterator) ==
    readArgumentsLoop(text, [iterator |-> iterator, parenNesting |-> 0, bracketNesting |-> 0,
                             braceNesting |-> 0, allArgs |-> <<>>, currArg |-> <<>>])

\* The documents: every text of up to MaxArgumentsLen characters over the
\* characters readArguments tells apart, a letter, a blank and a line break.
ArgumentChars == {"(", ")", "{", "}", "[", "]", ",", "\"", "'", "a", " ", NL}
ArgumentDocs == SeqsUpTo(ArgumentChars, MaxArgumentsLen)

\* readArguments(new BackwardIterator(document, position)) for a position
\* of the document: on a character or at the end of a line.
ReadArguments ==
    /\ pc = "idle"
    /\ \E o \in 0..Len(doc) :
          /\ call' = [op |-> "readArguments", position |-> positionAt(doc, o)]
          /\ result' = readArguments(doc, BackwardIterator(doc, positionAt(doc, o)))
    /\ pc' = "returned"
    /\ UNCHANGED <<doc, env>>

InitArguments == doc \in ArgumentDocs /\ env = NoEnv /\ pc = "idle" /\ call = NoCall /\ result = NoResult
NextArguments == ReadArguments \/ Return
SpecArguments == InitArguments /\ [][NextArguments]_vars

(***************************************************************************)
(* isValidIdentifierPart, isValidIdentifier and                            *)
(* getPrecedingIdentifierRange (contextUtil.ts 39-40, 696-734).  test() of *)
(* a pattern without anchors holds when the pattern matches somewhere in   *)
(* the string.                                                             *)
(***************************************************************************)
MaxIdentifierLen == 4

Digits == {"0", "1", "2", "3", "4", "5", "6", "7", "8", "9"}

\* The class [$\w] and the class [$A-Za-z_].
identPartClass == WordChars \cup {"$"}
identStartClass == identPartClass \ Digits

\* identPartPattern.test(char)
isValidIdentifierPart(char) == char \in identPartClass

\* identPattern.test(word): one character of the start class somewhere in
\* the word is a match, the rest of the pattern matching the empty string.
isValidIdentifier(word) == \E k \in 1..Len(word) : word[k] \in identStartClass

\* The loop that reads backward to the first character that is not white
\* space; charStr is "" when nothing was read.
RECURSIVE skipLoop(_, _, _)
skipRead(text, read, charStr) ==
    IF fromCharCode(read.code) \notin Whitespace
    THEN [iterator |-> read.iterator, charStr |-> fromCharCode(read.code)]
    ELSE skipLoop(text, read.iterator, fromCharCode(read.code))

skipLoop(text, iterator, charStr) ==
    IF hasNext(iterator) THEN skipRead(text, next(text, iterator), charStr)
    ELSE [iterator |-> iterator, charStr |-> charStr]

\* document.getWordRangeAtPosition(position) with the default word
\* definition: the run of word characters of the line that holds the
\* column or ends at it, undefined when there is none.
wordSeparators == {"$", ".", "-", "(", ")", ",", "\"", "'"}

isWordCharacter(char) == char \notin wordSeparators /\ char \notin Whitespace

wordRangeIn(line, lineText, from, to) ==
    IF from < to THEN Range(Position(line, from), Position(line, to)) ELSE Undefined

RECURSIVE wordStart(_, _)
wordStart(lineText, column) ==
    IF column > 0 /\ isWordCharacter(lineText[column]) THEN wordStart(lineText, column - 1)
    ELSE column

RECURSIVE wordEnd(_, _)
wordEnd(lineText, column) ==
    IF column < Len(lineText) /\ isWordCharacter(lineText[column + 1]) THEN wordEnd(lineText, column + 1)
    ELSE column

getWordRangeAtPosition(text, position) ==
    wordRangeIn(position.line, lineAt(text, position.line),
                wordStart(lineAt(text, position.line), Min(position.character, Len(lineAt(text, position.line)))),
                wordEnd(lineAt(text, position.line), Min(position.character, Len(lineAt(text, position.line)))))

\* document.getText(range): the whole text when the range is undefined.
getTextOf(text, range) ==
    IF range = Undefined THEN text
    ELSE Slice(text, offsetAt(text, range.start), offsetAt(text, range.end))

identRangeOf(text, currentWordRange) ==
    IF isValidIdentifier(getTextOf(text, currentWordRange)) THEN currentWordRange ELSE Undefined

identRangeAt(text, position) ==
    IF position = IllegalArgument THEN IllegalArgument
    ELSE identRangeOf(text, getWordRangeAtPosition(text, position))

afterSkip(text, skipped) ==
    IF skipped.charStr # "" /\ isValidIdentifierPart(skipped.charStr)
    THEN identRangeAt(text, getPosition(skipped.iterator))
    ELSE Undefined

getPrecedingIdentifierRange(text, position) ==
    afterSkip(text, skipLoop(text, BackwardIterator(text, position), ""))

\* The documents: every text of up to MaxIdentifierLen characters over a
\* letter, a digit, the underscore, the dollar sign, a dot, a blank and a
\* line break.
IdentifierChars == {"a", "1", "_", "$", ".", " ", NL}
IdentifierDocs == SeqsUpTo(IdentifierChars, MaxIdentifierLen)

GetPrecedingIdentifierRange ==
    /\ pc = "idle"
    /\ \E o \in 0..Len(doc) :
          /\ call' = [op |-> "getPrecedingIdentifierRange", position |-> positionAt(doc, o)]
          /\ result' = getPrecedingIdentifierRange(doc, positionAt(doc, o))
    /\ pc' = "returned"
    /\ UNCHANGED <<doc, env>>

InitIdentifier == doc \in IdentifierDocs /\ env = NoEnv /\ pc = "idle" /\ call = NoCall /\ result = NoResult
NextIdentifier == GetPrecedingIdentifierRange \/ Return
SpecIdentifier == InitIdentifier /\ [][NextIdentifier]_vars

(***************************************************************************)
(* A caller's loop over a BackwardIterator (contextUtil.ts 48-101):        *)
(* while (iterator.hasNext()) { iterator.next() }, one call of next() per  *)
(* step; result holds the iterator and the codes it has returned so far.   *)
(***************************************************************************)
MaxIteratorLen == 4

IteratorChars == {"a", "b", NL}
IteratorDocs == SeqsUpTo(IteratorChars, MaxIteratorLen)

NewBackwardIterator ==
    /\ pc = "idle"
    /\ \E o \in 0..Len(doc) :
          /\ call' = [op |-> "BackwardIterator", position |-> positionAt(doc, o)]
          /\ result' = [iterator |-> BackwardIterator(doc, positionAt(doc, o)), codes |-> <<>>]
    /\ pc' = "iterating"
    /\ UNCHANGED <<doc, env>>

IteratorNext ==
    /\ pc = "iterating"
    /\ hasNext(result.iterator)
    /\ result' = [iterator |-> next(doc, result.iterator).iterator,
                  codes |-> Append(result.codes, next(doc, result.iterator).code)]
    /\ UNCHANGED <<doc, env, pc, call>>

IteratorDone ==
    /\ pc = "iterating"
    /\ ~hasNext(result.iterator)
    /\ pc' = "returned"
    /\ UNCHANGED <<doc, env, call, result>>

InitIterator == doc \in IteratorDocs /\ env = NoEnv /\ pc = "idle" /\ call = NoCall /\ result = NoResult
NextIterator == NewBackwardIterator \/ IteratorNext \/ IteratorDone \/ Return
SpecIterator == InitIterator /\ [][NextIterator]_vars

(***************************************************************************)
(* The three scanners that keep a StringContext, one loop iteration per    *)
(* step: the for loops of getCommentRangesIterated (contextUtil.ts         *)
(* 289-376), getNextCharacterPosition (606-636) and getClosingPosition     *)
(* (659-687).  result holds the offset the loop is at, the offset it ends  *)
(* at and the state of its local variables.                                *)
(***************************************************************************)
MaxStepLen == 4

StepChars == {"\"", "'", "#", "(", ")", ",", "/", "*", NL}
\* Texts over the three bracket pairs and a comma.
StepPairChars == {"(", ")", "{", "}", "[", "]", ","}
StepDocs == SeqsUpTo(StepChars, MaxStepLen) \cup SeqsUpTo(StepPairChars, MaxStepLen)
StepSearchChars == {{","}, {")"}, {",", ")"}}
StepClosingChars == {")", "#"}

\* getCommentRangesIterated over the whole text.
BeginIterated ==
    /\ pc = "idle"
    /\ \E isScript \in BOOLEAN :
          call' = [op |-> "getCommentRangesIterated", isScript |-> isScript]
    /\ result' = [offset |-> 0, endOffset |-> Len(doc), state |-> IteratedStart]
    /\ pc' = "scanning"
    /\ UNCHANGED <<doc, env>>

StepIterated ==
    /\ pc = "scanning" /\ call.op = "getCommentRangesIterated"
    /\ result.offset < result.endOffset
    /\ result' = [result EXCEPT !.offset = result.offset + 1,
                                !.state = IteratedStep(doc, call.isScript, result.offset, result.state)]
    /\ UNCHANGED <<doc, env, pc, call>>

BeginNextCharacter ==
    /\ pc = "idle"
    /\ \E searchChar \in StepSearchChars :
          call' = [op |-> "getNextCharacterPosition", char |-> searchChar]
    /\ result' = [offset |-> 0, endOffset |-> Len(doc), state |-> NextCharacterStart]
    /\ pc' = "scanning"
    /\ UNCHANGED <<doc, env>>

StepNextCharacter ==
    /\ pc = "scanning" /\ call.op = "getNextCharacterPosition"
    /\ result.offset < result.endOffset /\ ~result.state.found
    /\ result' = [result EXCEPT !.offset = result.offset + 1,
                                !.state = NextCharacterStep(doc, result.offset, call.char, result.state)]
    /\ UNCHANGED <<doc, env, pc, call>>

BeginClosing ==
    /\ pc = "idle"
    /\ \E closingChar \in StepClosingChars :
          call' = [op |-> "getClosingPosition", closingChar |-> closingChar]
    /\ result' = [offset |-> 0, endOffset |-> Len(doc), state |-> ClosingStart]
    /\ pc' = "scanning"
    /\ UNCHANGED <<doc, env>>

StepClosing ==
    /\ pc = "scanning" /\ call.op = "getClosingPosition"
    /\ result.offset < result.endOffset /\ ~result.state.found
    /\ result' = [result EXCEPT !.offset = result.offset + 1,
                                !.state = ClosingStep(doc, result.offset, call.closingChar, result.state)]
    /\ UNCHANGED <<doc, env, pc, call>>

\* The loop is left: at its end offset or by a return from inside.
ScanDone ==
    /\ pc = "scanning"
    /\ \/ result.offset >= result.endOffset
       \/ call.op # "getCommentRangesIterated" /\ result.state.found
    /\ pc' = "returned"
    /\ UNCHANGED <<doc, env, call, result>>

InitSteps == doc \in StepDocs /\ env = NoEnv /\ pc = "idle" /\ call = NoCall /\ result = NoResult
NextSteps ==
    \/ BeginIterated \/ StepIterated
    \/ BeginNextCharacter \/ StepNextCharacter
    \/ BeginClosing \/ StepClosing
    \/ ScanDone \/ Return
SpecSteps == InitSteps /\ [][NextSteps]_vars

(***************************************************************************)
(* getCommentRanges as a stack of scans (contextUtil.ts 175-181, 189-240,  *)
(* 248-393): a frame is one activation of getCommentRangesByRegex or of    *)
(* getCommentRangesIterated, with the comment ranges it has collected, the *)
(* cfscript bodies it found and the index its forEach is at.  result holds *)
(* the stack, the bodies a script-mode scan was started for, and at the    *)
(* end the returned value.                                                 *)
(***************************************************************************)
MaxRegionFragments == 3

\* A variant that looks for cfscript bodies in script mode as well.
cfScriptRangesInEitherMode(text, isScript, docRange) == getCfScriptRanges(text, docRange)

\* let cfScriptRanges = []; if (!isScript) cfScriptRanges = getCfScriptRanges(...)
\* (contextUtil.ts 276-287; in getCommentRangesByRegex the else branch, 232)
cfScriptRangesOf(text, isScript, docRange) ==
    IF isScript THEN <<>> ELSE getCfScriptRanges(text, docRange)

\* The matches getCommentRangesByRegex collects itself (contextUtil.ts 201-230).
ownRegexRanges(text, isScript, documentText, textOffset) ==
    IF isScript
    THEN MatchRanges(text, textOffset, cfscriptBlockCommentPattern(documentText))
         \o MatchRanges(text, textOffset, cfscriptLineCommentPattern(documentText))
    ELSE MatchRanges(text, textOffset, tagBlockCommentPattern(documentText))

\* The ranges the loop of getCommentRangesIterated collects, less those
\* inside a cfscript body (contextUtil.ts 289-383).
ownIteratedRanges(text, isScript, textOffsetStart, textOffsetEnd, cfScriptRanges) ==
    SelectSeq(IteratedLoop(text, isScript, textOffsetStart, textOffsetEnd, IteratedStart).commentRanges,
              LAMBDA range : ~isInRanges(cfScriptRanges, range))

\* The activation record of a scan that has collected its own ranges.
ScanFrame(isScript, docRange, cfScriptRanges, commentRanges) ==
    [isScript |-> isScript, docRange |-> docRange, cfScriptRanges |-> cfScriptRanges, k |-> 1,
     commentRanges |-> commentRanges]

\* A scan is called: its local variables, then its own ranges.
Scan(stack, started, isScript, docRange, fast) ==
    \E documentText \in {getText(doc, docRange)},
       textOffsetStart \in {textOffsetOf(doc, docRange)},
       textOffsetEnd \in {IF docRange = NoRange THEN Len(doc) ELSE offsetAt(doc, docRange.end)},
       cfScriptRanges \in {cfScriptRangesOf(doc, isScript, docRange)} :
       \E commentRanges \in
              {IF fast THEN ownRegexRanges(doc, isScript, documentText, textOffsetStart)
               ELSE ownIteratedRanges(doc, isScript, textOffsetStart, textOffsetEnd, cfScriptRanges)} :
          result' = [stack |-> Append(stack, ScanFrame(isScript, docRange, cfScriptRanges, commentRanges)),
                     started |-> started, value |-> <<>>]

\* The documents: up to MaxRegionFragments fragments of the tag syntax, the
\* scenario documents, and a document of two cfscript bodies.
RegionDocs ==
    {ConcatAll(fs) : fs \in SeqsUpTo(TagFragments, MaxRegionFragments)} \cup ScenarioDocs
    \cup { TagOpen(cfscriptTagName) \o <<">", "/", "/", NL, "a">> \o TagClose(cfscriptTagName)
             \o TagOpen(cfscriptTagName) \o <<">", "a">> \o TagClose(cfscriptTagName) }

TopFrame == result.stack[Len(result.stack)]

CallGetCommentRanges ==
    /\ pc = "idle"
    /\ \E isScript \in BOOLEAN, fast \in BOOLEAN, docRange \in DocRanges(doc) :
          /\ call' = [op |-> "getCommentRangesStack", isScript |-> isScript, docRange |-> docRange,
                      fast |-> fast]
          /\ Scan(<<>>, <<>>, isScript, docRange, fast)
    /\ pc' = "in call"
    /\ UNCHANGED <<doc, env>>

\* The forEach reaches a cfscript body and calls the scan in script mode.
EnterRegion ==
    /\ pc = "in call" /\ TopFrame.k <= Len(TopFrame.cfScriptRanges)
    /\ call.fast \/ ~isInRanges(TopFrame.commentRanges, TopFrame.cfScriptRanges[TopFrame.k])
    /\ Scan([result.stack EXCEPT ![Len(result.stack)].k = TopFrame.k + 1],
            Append(result.started, TopFrame.cfScriptRanges[TopFrame.k]),
            TRUE, TopFrame.cfScriptRanges[TopFrame.k], call.fast)
    /\ UNCHANGED <<doc, env, pc, call>>

\* The forEach of the accurate scan passes over a body that lies inside a
\* comment range.
SkipRegion ==
    /\ pc = "in call" /\ TopFrame.k <= Len(TopFrame.cfScriptRanges)
    /\ ~call.fast /\ isInRanges(TopFrame.commentRanges, TopFrame.cfScriptRanges[TopFrame.k])
    /\ result' = [result EXCEPT !.stack[Len(result.stack)].k = TopFrame.k + 1]
    /\ UNCHANGED <<doc, env, pc, call>>

\* A scan called from the forEach returns; its ranges are concatenated.
ScanReturns ==
    /\ pc = "in call" /\ TopFrame.k > Len(TopFrame.cfScriptRanges)
    /\ Len(result.stack) > 1
    /\ result' = [result EXCEPT
                     !.stack = [SubSeq(result.stack, 1, Len(result.stack) - 1) EXCEPT
                                   ![Len(result.stack) - 1].commentRanges =
                                       result.stack[Len(result.stack) - 1].commentRanges
                                       \o TopFrame.commentRanges]]
    /\ UNCHANGED <<doc, env, pc, call>>

\* The outermost scan returns to the caller of getCommentRanges.
CallReturns ==
    /\ pc = "in call" /\ TopFrame.k > Len(TopFrame.cfScriptRanges)
    /\ Len(result.stack) = 1
    /\ result' = [result EXCEPT !.stack = <<>>, !.value = TopFrame.commentRanges]
    /\ pc' = "returned"
    /\ UNCHANGED <<doc, env, call>>

InitRegions == doc \in RegionDocs /\ env = NoEnv /\ pc = "idle" /\ call = NoCall /\ result = NoResult
NextRegions ==
    \/ CallGetCommentRanges \/ EnterRegion \/ SkipRegion \/ ScanReturns \/ CallReturns \/ Return
\* The code of a call runs to its end without waiting for anything.
SpecRegions ==
    /\ InitRegions /\ [][NextRegions]_vars
    /\ WF_vars(EnterRegion \/ SkipRegion \/ ScanReturns \/ CallReturns)

(***************************************************************************)
(* Offsets a list of ranges covers, ranges read as half-open.              *)
(***************************************************************************)
OffsetsOf(text, r) == {o \in 0..(Len(text) - 1) : offsetAt(text, r.start) <= o /\ o < offsetAt(text, r.end)}

RangesOverlap(text, r, s) == OffsetsOf(text, r) \cap OffsetsOf(text, s) # {}

Elems(s) == {s[k] : k \in 1..Len(s)}

Returned(op) == pc = "returned" /\ call.op = op

(***************************************************************************)
(* Reference lexing of a script text, written from the language rules: a   *)
(* string runs from a quote to the next same quote, a line comment from    *)
(* "//" to the end of its line, a block comment from "/*" to the next      *)
(* "*/"; each opens only outside the others.  ScriptLex gives the offsets  *)
(* strictly inside string literals, the offsets at which a line comment    *)
(* starts, and whether a block comment is left open.                       *)
(***************************************************************************)
RECURSIVE ScriptLex(_, _, _, _, _)
ScriptLex(text, o, mode, delim, acc) ==
    IF o >= Len(text) THEN [acc EXCEPT !.openBlock = (mode = "block")]
    ELSE LET c == text[o + 1]
         IN CASE mode = "code" ->
                   IF isStringDelimiter(c)
                   THEN ScriptLex(text, o + 1, "string", c, [acc EXCEPT !.strings = @ + 1])
                   ELSE IF MatchAt(text, o, <<"/", "/">>)
                   THEN ScriptLex(text, o + 2, "line", "", [acc EXCEPT !.lineStarts = @ \cup {o}])
                   ELSE IF MatchAt(text, o, <<"/", "*">>)
                   THEN ScriptLex(text, o + 2, "block", "", [acc EXCEPT !.blocks = @ + 1])
                   ELSE ScriptLex(text, o + 1, "code", "", acc)
              [] mode = "string" ->
                   IF c = delim THEN ScriptLex(text, o + 1, "code", "", acc)
                   ELSE ScriptLex(text, o + 1, "string", delim, [acc EXCEPT !.inside = @ \cup {o}])
              [] mode = "line" ->
                   ScriptLex(text, o + 1, IF c = NL THEN "code" ELSE "line", "", acc)
              [] mode = "block" ->
                   IF MatchAt(text, o, <<"*", "/">>) THEN ScriptLex(text, o + 2, "code", "", acc)
                   ELSE ScriptLex(text, o + 1, "block", "", acc)

LexOf(text) ==
    ScriptLex(text, 0, "code", "",
              [inside |-> {}, lineStarts |-> {}, strings |-> 0, blocks |-> 0, openBlock |-> FALSE])

\* A "//" or "/*" that lies inside a string literal starts at offset o.
CommentLikeInString(text, o) ==
    /\ {o, o + 1} \subseteq LexOf(text).inside
    /\ MatchAt(text, o, <<"/", "/">>) \/ MatchAt(text, o, <<"/", "*">>)

\* The only comments of a script text are terminated block comments, and it
\* holds no string.
OnlyBlockCommentsScript(text) ==
    LET lex == LexOf(text)
    IN lex.strings = 0 /\ lex.lineStarts = {} /\ lex.blocks > 0 /\ ~lex.openBlock

\* The same for a tag text without cfscript: every "<!---" outside a comment
\* has its "--->" after it.
RECURSIVE OnlyBlockCommentsTagFrom(_, _, _)
OnlyBlockCommentsTagFrom(text, o, n) ==
    LET open == IndexOfFrom(text, cfmlCommentRules.tagBlockComment[1], o)
        close == IF open = -1 THEN -1
                 ELSE IndexOfFrom(text, cfmlCommentRules.tagBlockComment[2],
                                  open + Len(cfmlCommentRules.tagBlockComment[1]))
    IN IF open = -1 THEN n > 0
       ELSE IF close = -1 THEN FALSE
       ELSE OnlyBlockCommentsTagFrom(text, close + Len(cfmlCommentRules.tagBlockComment[2]), n + 1)

OnlyBlockCommentsTag(text) ==
    /\ IndexOfFrom(text, TagOpen(cfscriptTagName), 0) = -1
    /\ OnlyBlockCommentsTagFrom(text, 0, 0)

(***************************************************************************)
(* String and nesting context of a forward scan, written from the rules    *)
(* the scans are specified by, without the scan loop: a quote read outside *)
(* a string opens a string, which the next same quote that has an even     *)
(* number of "#" between it and the opening quote closes.                  *)
(***************************************************************************)
Quotes == {"'", "\""}

\* Offset of the quote that closes the string opened at q, Len(text) if none.
StringCloseOf(text, q) ==
    LET closes == {r \in (q + 1)..(Len(text) - 1) :
                      /\ text[r + 1] = text[q + 1]
                      /\ Cardinality({h \in (q + 1)..(r - 1) : text[h + 1] = "#"}) % 2 = 0}
    IN IF closes = {} THEN Len(text) ELSE CHOOSE r \in closes : \A m \in closes : r <= m

\* The scan that started at from is inside a string when it reads offset o
\* (the closing quote is read inside the string, the opening quote is not).
RECURSIVE InsideString(_, _, _)
InsideString(text, from, o) ==
    LET opens == {q \in from..(o - 1) : text[q + 1] \in Quotes}
    IN IF opens = {} THEN FALSE
       ELSE LET q == CHOOSE x \in opens : \A m \in opens : x <= m
                r == StringCloseOf(text, q)
            IN IF o <= r THEN TRUE ELSE InsideString(text, r + 1, o)

\* Number of occurrences of ch outside strings at the offsets from..o-1.
CountOutside(text, from, o, ch) ==
    Cardinality({p \in from..(o - 1) : text[p + 1] = ch /\ ~InsideString(text, from, p)})

\* The brace, bracket and parenthesis counters of getNextCharacterPosition
\* all read zero at offset o: delimiters that are searched for are not counted.
CountersZero(text, from, o, targets) ==
    \A pair \in {<<"{", "}">>, <<"[", "]">>, <<"(", ")">>} :
        (IF pair[1] \in targets THEN 0 ELSE CountOutside(text, from, o, pair[1]))
        = (IF pair[2] \in targets THEN 0 ELSE CountOutside(text, from, o, pair[2]))

\* Offsets of from..to-1 that hold a character of targets, read outside a
\* string with all counters zero.
UnnestedTargets(text, from, to, targets) ==
    {o \in from..(to - 1) : /\ o < Len(text)
                            /\ text[o + 1] \in targets
                            /\ ~InsideString(text, from, o)
                            /\ CountersZero(text, from, o, targets)}

\* Offsets at or after from that hold closingChar outside a string, with as
\* many openers as closers of that kind read outside strings since from; a
\* character that is its own opener is read as an opener, never as a closer.
MatchingClosers(text, from, closingChar, openingChar) ==
    {o \in from..(Len(text) - 1) :
        /\ closingChar # openingChar
        /\ text[o + 1] = closingChar
        /\ ~InsideString(text, from, o)
        /\ CountOutside(text, from, o, openingChar) = CountOutside(text, from, o, closingChar)}

OpenerOf(closingChar) ==
    CASE closingChar = "}" -> "{" [] closingChar = "]" -> "[" [] closingChar = ")" -> "("
      [] closingChar = ">" -> "<"
      [] closingChar \in {"\"", "'", "#"} -> closingChar

(***************************************************************************)
(* Claims.                                                                 *)
(***************************************************************************)

\* C1: for every document, mode flag, sub-range and accuracy mode, the list
\* getCommentRanges returns is sorted by document order and no two of its
\* ranges overlap: each range ends at or before the start of the next one.
C1_CommentRangesSortedDisjoint ==
    Returned("getCommentRanges") =>
        \A k \in 1..(Len(result) - 1) : isBeforeOrEqual(result[k].end, result[k + 1].start)

\* C2: for a sorted, non-overlapping list R, invertRanges(document, R) is
\* exactly the complement of R: its ranges are pairwise disjoint, disjoint
\* from every range of R, and with R they cover every offset of the document.
C2_InvertIsComplement ==
    Returned("invertRanges") =>
        /\ \A i, j \in 1..Len(result) : i # j => ~RangesOverlap(doc, result[i], result[j])
        /\ \A r \in Elems(result), q \in Elems(call.ranges) : ~RangesOverlap(doc, r, q)
        /\ \A o \in 0..(Len(doc) - 1) :
              \E r \in Elems(result) \cup Elems(call.ranges) : o \in OffsetsOf(doc, r)

\* Adjacent ranges of a sorted list merged into one.
RECURSIVE MergeAdjacent(_)
MergeAdjacent(ranges) ==
    IF Len(ranges) < 2 THEN ranges
    ELSE IF ranges[1].end = ranges[2].start
         THEN MergeAdjacent(<<[start |-> ranges[1].start, end |-> ranges[2].end]>> \o SubSeq(ranges, 3, Len(ranges)))
         ELSE <<ranges[1]>> \o MergeAdjacent(Tail(ranges))

\* C3: round trip of invertRanges on a sorted list R of non-empty,
\* non-overlapping ranges: inverting the inverse gives R with adjacent ranges
\* merged, and every offset of the document lies in exactly one range of R
\* and the inverse taken together.
C3_InvertRoundTrip ==
    Returned("invertRanges") =>
        /\ invertRanges(doc, result) = MergeAdjacent(call.ranges)
        /\ \A o \in 0..(Len(doc) - 1) :
              Cardinality({k \in 1..Len(result) : o \in OffsetsOf(doc, result[k])})
              + Cardinality({k \in 1..Len(call.ranges) : o \in OffsetsOf(doc, call.ranges[k])}) = 1

\* C8: in accurate mode with isScript = true no returned range starts at a
\* "//" or "/*" that lies inside a quoted string literal of the script text.
C8_NoCommentInsideString ==
    (Returned("getCommentRanges") /\ call.isScript /\ ~call.fast /\ call.docRange = NoRange) =>
        \A r \in Elems(result) : ~CommentLikeInString(doc, offsetAt(doc, r.start))

\* C9: on a document whose only comments are terminated block comments
\* outside strings, fast mode and accurate mode return the same ranges, in
\* script mode and in tag mode.
C9_FastEqualsAccurateOnBlockComments ==
    (/\ Returned("getCommentRanges")
     /\ call.docRange = NoRange
     /\ IF call.isScript THEN OnlyBlockCommentsScript(doc) ELSE OnlyBlockCommentsTag(doc)) =>
        result = getCommentRanges(doc, call.isScript, NoRange, ~call.fast)

\* C4 as stated: getNextCharacterPosition returns the position of the first
\* offset of [startOffset, endOffset) whose character is in the target set,
\* read while the scanner is not inside a string and all three counters are
\* zero (the position after it when includeChar is true).
C4_FirstUnnestedTarget ==
    Returned("getNextCharacterPosition") =>
        LET hits == UnnestedTargets(doc, call.startOffset, call.endOffset, call.char)
        IN hits # {} =>
              result = positionAt(doc, Least(hits) + (IF call.includeChar THEN 1 ELSE 0))

\* C4 amended: the same for the target characters that are not quotes; a
\* quote is always read as a string delimiter and is never matched.
C4_FirstUnnestedNonQuoteTarget ==
    Returned("getNextCharacterPosition") =>
        LET hits == UnnestedTargets(doc, call.startOffset, call.endOffset, call.char \ Quotes)
        IN hits # {} =>
              result = positionAt(doc, Least(hits) + (IF call.includeChar THEN 1 ELSE 0))

\* Witness of C4: a match was returned although an earlier target character
\* outside a string was passed over because it was nested.
C4_Witness ==
    /\ Returned("getNextCharacterPosition")
    /\ LET hits == UnnestedTargets(doc, call.startOffset, call.endOffset, call.char \ Quotes)
       IN /\ hits # {}
          /\ result = positionAt(doc, Least(hits) + (IF call.includeChar THEN 1 ELSE 0))
          /\ \E p \in call.startOffset..(Least(hits) - 1) :
                doc[p + 1] \in call.char /\ ~InsideString(doc, call.startOffset, p)

\* C5 as stated: for both settings of includeChar the result is the position
\* of endOffset if and only if no target character occurs unnested and
\* outside a string in [startOffset, endOffset) (a quote delimits a string
\* and is not outside it).
C5_SentinelUnambiguous ==
    Returned("getNextCharacterPosition") =>
        LET hits == UnnestedTargets(doc, call.startOffset, call.endOffset, call.char \ Quotes)
        IN (result = positionAt(doc, call.endOffset)) <=> (hits = {})

\* C5 amended: the result is the position of endOffset if and only if no
\* such target character occurs, or includeChar is true and the first one is
\* the last character of the range.
C5_SentinelUnlessLastIncluded ==
    Returned("getNextCharacterPosition") =>
        LET hits == UnnestedTargets(doc, call.startOffset, call.endOffset, call.char \ Quotes)
        IN (result = positionAt(doc, call.endOffset))
           <=> (hits = {} \/ (call.includeChar /\ Least(hits) = call.endOffset - 1))

\* Witness of C5: nothing found because a string opened in the range is never
\* closed, although a target character follows the quote.
C5_Witness ==
    /\ Returned("getNextCharacterPosition")
    /\ result = positionAt(doc, call.endOffset)
    /\ \E q \in call.startOffset..(call.endOffset - 1) :
          /\ doc[q + 1] \in Quotes
          /\ ~InsideString(doc, call.startOffset, q)
          /\ StringCloseOf(doc, q) = Len(doc)
          /\ \E p \in (q + 1)..(call.endOffset - 1) : doc[p + 1] \in call.char \ Quotes

\* C6: for closingChar in } ] ) > getClosingPosition returns the position
\* just after the first closer read outside a string at which the openers
\* and the closers of that kind read outside strings since initialOffset
\* balance, that is, the closer matching the opener consumed before
\* initialOffset.
C6_ClosingAfterMatchingCloser ==
    Returned("getClosingPosition") =>
        LET hits == MatchingClosers(doc, call.initialOffset, call.closingChar,
                                    OpenerOf(call.closingChar))
        IN hits # {} => result = positionAt(doc, Least(hits) + 1)

\* Witness of C6: the scenario {a: {b: 1}, c: 2} from offset 1 gives the
\* position after the final brace, past the nested pair.
C6_Witness ==
    /\ Returned("getClosingPosition")
    /\ doc = NestedStructDoc /\ call.initialOffset = 1 /\ call.closingChar = "}"
    /\ result = Position(0, 17)

\* C7: getClosingPosition returns the position of initialOffset exactly when
\* no matching closer exists up to the end of the text; otherwise the
\* returned offset is greater than initialOffset and the character just
\* before it is closingChar.
C7_InitialOffsetIffNoCloser ==
    Returned("getClosingPosition") =>
        LET hits == MatchingClosers(doc, call.initialOffset, call.closingChar,
                                    OpenerOf(call.closingChar))
            at == offsetAt(doc, result)
        IN /\ (result = positionAt(doc, call.initialOffset)) <=> (hits = {})
           /\ hits # {} => (at > call.initialOffset /\ charAt(doc, at - 1) = call.closingChar)

\* Witness of C7: the initial position comes back although closers follow:
\* one is nested under an opener left unbalanced, or sits in a string that
\* is never closed.
C7_Witness ==
    /\ Returned("getClosingPosition")
    /\ result = positionAt(doc, call.initialOffset)
    /\ \E p, q \in call.initialOffset..(Len(doc) - 1) :
          /\ doc[p + 1] = call.closingChar /\ ~InsideString(doc, call.initialOffset, p)
          /\ doc[q + 1] = call.closingChar /\ InsideString(doc, call.initialOffset, q)

(***************************************************************************)
(* The merged attribute set of a component file, read from the entries the *)
(* file holds: the value of a key is the one of the attribute list when    *)
(* the list has the key, otherwise the one of the doc comment.             *)
(***************************************************************************)
HasMerged(key) ==
    \E k \in 1..Len(env.attributes \o env.docBlock) : (env.attributes \o env.docBlock)[k].key = key

MergedValue(key) ==
    LET entries == env.docBlock \o env.attributes
        at == {k \in 1..Len(entries) : entries[k].key = key}
    IN entries[CHOOSE k \in at : \A m \in at : m <= k].value

IsComponent(value) == "accessors" \in DOMAIN value

\* C10: whenever the merged attribute set of the parsed file has persistent
\* = true, the component parseComponent returns has accessors = true.
C10_PersistentForcesAccessors ==
    (/\ Returned("parseComponent")
     /\ IsComponent(result)
     /\ HasMerged("persistent") /\ isTruthy(MergedValue("persistent")))
        => result.accessors = Bool(TRUE)

(***************************************************************************)
(* The entries of a component file by source: the attribute list first,    *)
(* then the doc comment, the last entry of a key standing for the key.     *)
(***************************************************************************)
EntryKeys(entries) == {entries[k].key : k \in 1..Len(entries)}

LastEntry(entries, key) ==
    entries[CHOOSE k \in 1..Len(entries) :
                /\ entries[k].key = key
                /\ \A m \in (k + 1)..Len(entries) : entries[m].key # key]

SourceEntry(key) ==
    IF key \in EntryKeys(env.attributes) THEN LastEntry(env.attributes, key)
    ELSE LastEntry(env.docBlock, key)

\* Length of the part of a dotted name behind its last dot.
LastSegmentLen(value) ==
    Least({n \in 0..Len(value) : n = Len(value) \/ value[Len(value) - n] = "."})

\* The range of the last segment of the value of an entry.
LastSegmentRange(entry) ==
    Range(positionAt(doc, offsetAt(doc, entry.valueRange.end) - LastSegmentLen(entry.value)),
          entry.valueRange.end)

\* C11: the attributes parseComponent merges have, for every key of the doc
\* comment or the attribute list, the value of the attribute list when the
\* list has the key and the value of the doc comment otherwise, boolean keys
\* coerced to booleans whatever their source; and the extendsRange of the
\* returned component lies in the entry that supplies the merged extends.
C11_MergeRightBiased ==
    Returned("parseComponent") =>
        LET merged == componentAttributesOf(doc, env, COMPONENT_PATTERN_exec(doc))
        IN /\ DOMAIN merged = EntryKeys(env.attributes) \cup EntryKeys(env.docBlock)
           /\ \A key \in DOMAIN merged :
                 merged[key] = IF key \in booleanAttributes
                               THEN Bool(isTruthy(SourceEntry(key).value))
                               ELSE Str(SourceEntry(key).value)
           /\ (IsComponent(result) /\ "extends" \in DOMAIN merged)
                 => /\ "extendsRange" \in DOMAIN result
                    /\ result.extendsRange = LastSegmentRange(SourceEntry("extends"))

\* Witness of C11: the doc comment and the attribute list give persistent
\* different values, and a component came back.
C11_Witness ==
    /\ Returned("parseComponent")
    /\ IsComponent(result)
    /\ "persistent" \in EntryKeys(env.attributes) \cap EntryKeys(env.docBlock)
    /\ LastEntry(env.attributes, "persistent").value # LastEntry(env.docBlock, "persistent").value

(***************************************************************************)
(* Resolution of a dotted component name as the specification words it:    *)
(* the cached location, else the file of that name under the directory of  *)
(* the referencing file, else the one under the root of its workspace      *)
(* folder, else nothing.  The candidates of the names the declarations     *)
(* use are written out.                                                    *)
(***************************************************************************)
LocalJ == <<"/", "w", "/", "d", "/", "J", ".", "c", "f", "c">>

LocalCandidate(dotPath) ==
    CASE dotPath = <<"p", "k", "g", ".", "B", "a", "s", "e">> -> LocalBase
      [] dotPath = <<"J">> -> LocalJ
      [] OTHER -> <<>>

RootCandidate(dotPath) ==
    CASE dotPath = <<"p", "k", "g", ".", "B", "a", "s", "e">> -> RootBase
      [] dotPath = <<"J">> -> RootJ
      [] OTHER -> <<>>

CacheMiss(dotPath) == \A e \in env.cache : e[1] # dotPath

UncachedLocation(dotPath) ==
    IF LocalCandidate(dotPath) \in env.files THEN UriFile(LocalCandidate(dotPath))
    ELSE IF env.workspaceFolder # <<>> /\ RootCandidate(dotPath) \in env.files
    THEN UriFile(RootCandidate(dotPath))
    ELSE Undefined

LocationOf(dotPath) ==
    IF CacheMiss(dotPath) THEN UncachedLocation(dotPath)
    ELSE UriFile((CHOOSE e \in env.cache : e[1] = dotPath)[2])

\* C12: on a cache miss componentPathToUri returns the candidate under the
\* directory of the referencing file when that file exists, otherwise the
\* candidate under the workspace folder root when that exists, otherwise
\* not-found.
C12_LocalThenRootThenNotFound ==
    (Returned("componentPathToUri") /\ CacheMiss(call.dotPath))
        => result = UncachedLocation(call.dotPath)

\* C13: componentPathToUri and parseComponent raise no error: what comes
\* back is a location, not-found, or a component.
C13_NeverFails ==
    (Returned("componentPathToUri") \/ Returned("parseComponent")) => result # Thrown

\* The segments of a comma-separated list, each without the white space
\* around it, in listed order.
CommasOf(value) == {k \in 1..Len(value) : value[k] = ","}

\* The k-th least element of a set of numbers.
RECURSIVE NthLeast(_, _)
NthLeast(S, k) == IF k = 1 THEN Least(S) ELSE NthLeast(S \ {Least(S)}, k - 1)

Stripped(value, from, to) ==
    LET inked == {k \in from..to : value[k] \notin Whitespace}
    IN IF inked = {} THEN <<>>
       ELSE SubSeq(value, Least(inked), CHOOSE k \in inked : \A m \in inked : m <= k)

ListSegments(value) ==
    [n \in 1..(Cardinality(CommasOf(value)) + 1) |->
        Stripped(value,
                 IF n = 1 THEN 1 ELSE NthLeast(CommasOf(value), n - 1) + 1,
                 IF n = Cardinality(CommasOf(value)) + 1 THEN Len(value)
                 ELSE NthLeast(CommasOf(value), n) - 1)]

\* The locations of the names of a list that resolve, in listed order.
ResolvedOf(names) ==
    LET resolving == SelectSeq(names, LAMBDA name : LocationOf(name) # Undefined)
    IN [k \in 1..Len(resolving) |-> LocationOf(resolving[k])]

\* C14: parseComponent returns a component whose implements holds, in listed
\* order, exactly the locations of the comma-separated, trimmed segments of
\* the implements attribute that resolve, and is absent when none resolves;
\* an extends name that does not resolve leaves extends absent.
C14_ImplementsKeepsResolved ==
    Returned("parseComponent") =>
        /\ ("implements" \in EntryKeys(env.attributes) \cup EntryKeys(env.docBlock))
              => /\ IsComponent(result)
                 /\ result.implements =
                        IF ResolvedOf(ListSegments(SourceEntry("implements").value)) = <<>> THEN Null
                        ELSE [array |-> ResolvedOf(ListSegments(SourceEntry("implements").value))]
        /\ (/\ "extends" \in EntryKeys(env.attributes) \cup EntryKeys(env.docBlock)
            /\ LocationOf(SourceEntry("extends").value) = Undefined)
              => /\ IsComponent(result)
                 /\ result.extends \in {Null, Undefined}

\* The functions of the document whose name is the key ignoring case, and
\* the one of them declared last in the document.
NamedLike(key) == {f \in Elems(env.functions) : LowerText(f.name) = key}

LastDeclared(key) ==
    CHOOSE f \in NamedLike(key) : \A g \in NamedLike(key) : isBeforeOrEqual(g.start, f.start)

\* C15: the functions of the returned component are keyed by lower-cased
\* name, each key holding the function of that name declared last in the
\* document, script-style or tag-style; and the variables range ends at the
\* least start position of the parsed functions.
C15_LastDeclaredFunctionWins ==
    (Returned("parseComponent") /\ IsComponent(result)) =>
        /\ DOMAIN result.functions = {LowerText(f.name) : f \in Elems(env.functions)}
        /\ \A key \in DOMAIN result.functions : result.functions[key] = LastDeclared(key)
        /\ \A f \in Elems(env.functions) : isBeforeOrEqual(result.variables.range.end, f.start)
        /\ env.functions # <<>>
              => \E f \in Elems(env.functions) : result.variables.range.end = f.start

\* The least start position of the functions of the document, the document
\* end when it has none.
FirstFunctionStart ==
    IF env.functions = <<>> THEN positionAt(doc, Len(doc))
    ELSE (CHOOSE f \in Elems(env.functions) :
             \A g \in Elems(env.functions) : isBeforeOrEqual(f.start, g.start)).start

\* C16: the range handed to parseVariables starts at the offset just after
\* the matched declaration head (match index plus head length) and ends at
\* the earliest function start, or at the document end when there is no
\* function.
C16_VariablesRangeAfterHead ==
    (Returned("parseComponent") /\ IsComponent(result)) =>
        result.variables.range =
            Range(positionAt(doc, COMPONENT_PATTERN_exec(doc).index
                                      + Len(COMPONENT_PATTERN_exec(doc).head)),
                  FirstFunctionStart)

\* C17: isInterface is true exactly when the matched keyword is interface in
\* any letter case.
C17_IsInterfaceIgnoresCase ==
    (Returned("parseComponent") /\ IsComponent(result)) =>
        result.isInterface =
            Bool(LowerText(COMPONENT_PATTERN_exec(doc).componentType)
                     = <<"i", "n", "t", "e", "r", "f", "a", "c", "e">>)

\* The offset of a position of the document, and the text a range covers.
RECURSIVE LineOffset(_, _)
LineOffset(line, o) ==
    IF line = 0 \/ o >= Len(doc) THEN o
    ELSE LineOffset(IF doc[o + 1] = NL THEN line - 1 ELSE line, o + 1)

OffsetOf(position) == LineOffset(position.line, 0) + position.character

TextIn(range) == Slice(doc, OffsetOf(range.start), OffsetOf(range.end))

\* The offset of the first occurrence, in any letter case, of a keyword.
RECURSIVE FirstKeywordFrom(_)
FirstKeywordFrom(o) ==
    IF o >= Len(doc) \/ \E keyword \in ComponentKeywords : MatchAtIgnoreCase(doc, o, keyword)
    THEN o ELSE FirstKeywordFrom(o + 1)

FirstKeywordOffset == FirstKeywordFrom(0)

\* C18: the declarationRange of the returned component spans exactly the
\* keyword of the declaration, whatever precedes it (a doc comment, the tag
\* prefix, other text), and its extendsRange covers exactly the last dotted
\* segment of the extends value: the text after the last dot.
C18_RangesSpanKeywordAndLastSegment ==
    (Returned("parseComponent") /\ IsComponent(result)) =>
        /\ result.declarationRange.start = positionAt(doc, FirstKeywordOffset)
        /\ \E keyword \in ComponentKeywords :
              /\ MatchAtIgnoreCase(doc, FirstKeywordOffset, keyword)
              /\ result.declarationRange.end = positionAt(doc, FirstKeywordOffset + Len(keyword))
        /\ "extendsRange" \in DOMAIN result
              => /\ "." \notin Elems(TextIn(result.extendsRange))
                 /\ TextIn(result.extendsRange) # <<>>
                 /\ doc[OffsetOf(result.extendsRange.start)] = "."
                 /\ result.extendsRange.end = SourceEntry("extends").valueRange.end

C18_Witness ==
    /\ Returned("parseComponent") /\ IsComponent(result)
    /\ "extendsRange" \in DOMAIN result
    /\ COMPONENT_PATTERN_exec(doc).index > 0
    /\ COMPONENT_PATTERN_exec(doc).fullPrefix # <<>>
    /\ COMPONENT_PATTERN_exec(doc).checkTag # <<>>

(***************************************************************************)
(* The argument list before a start position, read off the text: the       *)
(* characters from the start position back to the beginning, the quoted    *)
(* stretches among them (a quote met going backward pairs with the nearest *)
(* same quote before it), and the nesting of the characters outside them.  *)
(***************************************************************************)
\* The index in doc of the character the start position is on, of the one
\* before it when the position is the end of a line.
Top == IF OffsetOf(call.position) < Len(doc) /\ doc[OffsetOf(call.position) + 1] # NL
       THEN OffsetOf(call.position) + 1 ELSE OffsetOf(call.position)

StartsOnCharacter == Top = OffsetOf(call.position) + 1

\* The quote that is open, going backward, when the character at index k
\* is read; the empty string when none is.
RECURSIVE QuoteBefore(_)
QuoteAfter(open, char) ==
    IF open = "" THEN (IF char \in {"\"", "'"} THEN char ELSE "")
    ELSE IF char = open THEN "" ELSE open

QuoteBefore(k) == IF k >= Top THEN "" ELSE QuoteAfter(QuoteBefore(k + 1), doc[k + 1])

Unquoted(k) == k \in 1..Top /\ QuoteBefore(k) = "" /\ doc[k] \notin {"\"", "'"}

\* Closers minus openers among the unquoted characters behind index k.
NestingBehind(k, opener, closer) ==
    Cardinality({j \in (k + 1)..Top : Unquoted(j) /\ doc[j] = closer})
        - Cardinality({j \in (k + 1)..Top : Unquoted(j) /\ doc[j] = opener})

UnmatchedParens == {k \in 1..Top : Unquoted(k) /\ doc[k] = "(" /\ NestingBehind(k, "(", ")") = 0}

ListOpen == CHOOSE k \in UnmatchedParens : \A j \in UnmatchedParens : j <= k

TopLevelCommas ==
    {k \in (ListOpen + 1)..Top :
        /\ Unquoted(k) /\ doc[k] = ","
        /\ NestingBehind(k, "(", ")") = 0
        /\ NestingBehind(k, "{", "}") = 0
        /\ NestingBehind(k, "[", "]") = 0}

\* The trimmed texts between the opening parenthesis, the top-level
\* commas and the start position, from left to right.
ArgumentTexts ==
    [n \in 1..(Cardinality(TopLevelCommas) + 1) |->
        Stripped(doc,
                 IF n = 1 THEN ListOpen + 1 ELSE NthLeast(TopLevelCommas, n - 1) + 1,
                 IF n = Cardinality(TopLevelCommas) + 1 THEN Top
                 ELSE NthLeast(TopLevelCommas, n) - 1)]

QuoteInList == \E k \in (ListOpen + 1)..Top : doc[k] \in {"\"", "'"}

\* C19: when the backward scan meets an opening parenthesis no closing one
\* read before matches, readArguments returns the trimmed texts between that
\* parenthesis and the start position, split at the commas at which the
\* parenthesis, brace and bracket nesting are all zero, from left to right:
\* one more than there are such commas.
C19_ArgumentsSplitAtTopLevelCommas ==
    (Returned("readArguments") /\ UnmatchedParens # {}) =>
        /\ Len(result.value) = Cardinality(TopLevelCommas) + 1
        /\ result.value = ArgumentTexts

\* C20: an argument that holds a quoted string comes back as its trimmed
\* source text, character for character, and what is inside the quotes
\* neither splits the argument nor counts for the nesting.
C20_QuotedTextVerbatim ==
    (Returned("readArguments") /\ UnmatchedParens # {} /\ QuoteInList) =>
        /\ Len(result.value) = Len(ArgumentTexts)
        /\ \A n \in 1..Len(result.value) : result.value[n] = ArgumentTexts[n]

\* A range, as against undefined or an error.
IsRange(value) == DOMAIN value = {"start", "end"}

\* Letters, digits, the underscore and the dollar sign only, and no digit
\* in front.
IdentifierText(word) ==
    /\ word # <<>>
    /\ \A k \in 1..Len(word) : word[k] \in WordChars \cup {"$"}
    /\ word[1] \notin Digits

\* C21: the range getPrecedingIdentifierRange returns covers a valid
\* identifier: letters, digits, underscores and dollar signs, the first of
\* them no digit; for any other word nothing is returned.
C21_RangeCoversIdentifier ==
    (Returned("getPrecedingIdentifierRange") /\ IsRange(result))
        => IdentifierText(TextIn(result))

\* The codes a backward reading from the start position has to give: the
\* characters of the text from the one at the position back to the first,
\* the line breaks among them standing for the line boundaries, and one
\* code 0 for the beginning of the document.
CodesToCome == [k \in 1..(Top + 1) |-> IF k <= Top THEN doc[Top - k + 1] ELSE BOF]

Iterating == pc \in {"iterating", "returned"} /\ call.op = "BackwardIterator"

\* C22: the codes a BackwardIterator has returned are always the first
\* ones of: the characters of the start line from the start column down to
\* column 0, a line break code, the line before from its last character to
\* its first, and so on to line 0, and one code 0 at the end; hasNext() is
\* true as long as any of them is to come and false after the code 0, so
\* the iteration ends after as many calls.
C22_YieldsTextBackward ==
    Iterating =>
        /\ Len(result.codes) <= Len(CodesToCome)
        /\ \A k \in 1..Len(result.codes) : result.codes[k] = CodesToCome[k]
        /\ hasNext(result.iterator) <=> Len(result.codes) < Len(CodesToCome)

\* A scanner is in its loop or has just left it.
Scanning ==
    /\ pc \in {"scanning", "returned"}
    /\ call.op \in {"getCommentRangesIterated", "getNextCharacterPosition", "getClosingPosition"}

\* C23: in every state of the three scanners embeddedCFML is true only
\* while inString is true, and activeStringDelimiter is a quote character
\* exactly while inString is true.
C23_StringContextConsistent ==
    Scanning =>
        /\ result.state.stringContext.embeddedCFML => result.state.stringContext.inString
        /\ result.state.stringContext.inString
              <=> result.state.stringContext.activeStringDelimiter \in {"\"", "'"}

C23_Witness ==
    /\ Scanning
    /\ result.state.stringContext.embeddedCFML
    /\ result.offset < result.endOffset
    /\ doc[result.offset + 1] = result.state.stringContext.activeStringDelimiter

(***************************************************************************)
(* The comments of a script text, read off the text: outside strings and   *)
(* comments a quote opens a string that the next same quote closes, "//"   *)
(* opens a line comment that runs to the end of its line, and the two      *)
(* characters slash, star open a block comment that runs to just after the *)
(* first star, slash behind them.  Each comment is the pair of its first   *)
(* offset and the offset behind its last character.                        *)
(***************************************************************************)
LineEndFrom(text, o) == Least({e \in o..Len(text) : e = Len(text) \/ text[e + 1] = NL})

RECURSIVE ScriptComments(_, _, _)
ScriptComments(text, o, acc) ==
    IF o >= Len(text) THEN acc
    ELSE IF isStringDelimiter(text[o + 1])
    THEN LET close == {e \in (o + 1)..(Len(text) - 1) : text[e + 1] = text[o + 1]}
         IN IF close = {} THEN acc ELSE ScriptComments(text, Least(close) + 1, acc)
    ELSE IF MatchAt(text, o, <<"/", "/">>)
    THEN ScriptComments(text, LineEndFrom(text, o),
                        [acc EXCEPT !.lines = @ \cup {<<o, LineEndFrom(text, o)>>}])
    ELSE IF MatchAt(text, o, <<"/", "*">>)
    THEN LET close == IndexOfFrom(text, <<"*", "/">>, o + 2)
         IN IF close = -1 THEN acc
            ELSE ScriptComments(text, close + 2, [acc EXCEPT !.blocks = @ \cup {<<o, close + 2>>}])
    ELSE ScriptComments(text, o + 1, acc)

CommentsOf(text) == ScriptComments(text, 0, [lines |-> {}, blocks |-> {}])

AccurateScript ==
    Returned("getCommentRanges") /\ call.isScript /\ ~call.fast /\ call.docRange = NoRange

\* C24: in accurate script mode every block comment opened outside a string
\* is returned as the range from its opening slash to just after the slash
\* of the first star, slash behind the opening: nothing in between ends it.
C24_BlockCommentClosedByDelimiter ==
    AccurateScript =>
        \A c \in CommentsOf(doc).blocks : OffsetRange(doc, c[1], c[2]) \in Elems(result)

\* C25: in accurate script mode every "//" outside strings and comments is
\* returned as the range from its first slash to the end of its line, the
\* end of the scanned text when no line break follows.
C25_LineCommentToEndOfLine ==
    AccurateScript =>
        \A c \in CommentsOf(doc).lines : OffsetRange(doc, c[1], c[2]) \in Elems(result)

\* An accurate scan in tag mode has returned.
AccurateTag == Returned("getCommentRanges") /\ ~call.isScript /\ ~call.fast

CfScriptBodies == getCfScriptRanges(doc, call.docRange)

\* The range starts at the opening delimiter of a tag comment.
TagStyle(range) == MatchAt(doc, OffsetOf(range.start), cfmlCommentRules.tagBlockComment[1])

NoTagCommentInBody == \A r \in Elems(result) : TagStyle(r) => ~isInRanges(CfScriptBodies, r)

Rescanned(body) == Elems(getCommentRangesIterated(doc, TRUE, body)) \subseteq Elems(result)

\* The body lies inside a tag comment of the result.
CommentedOut(body) == \E r \in Elems(result) : TagStyle(r) /\ containsRange(r, body)

\* C26: in accurate tag mode no tag comment range inside a cfscript body is
\* in the result, and the ranges of a script-mode scan of every cfscript
\* body are in the result.
C26_EveryBodyRescanned ==
    AccurateTag => /\ NoTagCommentInBody
                   /\ \A k \in 1..Len(CfScriptBodies) : Rescanned(CfScriptBodies[k])

\* C26 amended: in accurate tag mode no tag comment range inside a cfscript
\* body is in the result, and the ranges of a script-mode scan of every
\* cfscript body that does not lie inside a tag comment of the result are in
\* the result; a body inside such a comment is not scanned.
C26_BodiesOutsideCommentsRescanned ==
    AccurateTag =>
        /\ NoTagCommentInBody
        /\ \A k \in 1..Len(CfScriptBodies) :
               IF CommentedOut(CfScriptBodies[k])
               THEN \A r \in Elems(result) : TagStyle(r) \/ ~containsRange(CfScriptBodies[k], r)
               ELSE Rescanned(CfScriptBodies[k])

\* A tag comment inside a cfscript body was found and dropped, and the scan
\* of that body added a comment.
C26_Witness ==
    /\ AccurateTag /\ call.docRange = NoRange
    /\ \E k \in 1..Len(CfScriptBodies) :
          /\ \E r \in Elems(IteratedLoop(doc, FALSE, 0, Len(doc), IteratedStart).commentRanges) :
                 containsRange(CfScriptBodies[k], r)
          /\ \E r \in Elems(result) : ~TagStyle(r) /\ containsRange(CfScriptBodies[k], r)

\* An iteration of the loop of getNextCharacterPosition or getClosingPosition
\* that starts inside a string.
StepInString ==
    /\ pc = "scanning" /\ call.op \in {"getNextCharacterPosition", "getClosingPosition"}
    /\ result'.offset = result.offset + 1
    /\ result.state.stringContext.inString

\* The bracket counters of either loop.
Counters(state) == IF "pairContext" \in DOMAIN state THEN state.pairContext ELSE state.unclosedPairs

Closes(stringContext, char) ==
    char # "#" /\ ~stringContext.embeddedCFML /\ char = stringContext.activeStringDelimiter

\* C27: in an iteration that starts inside a string the counters stay as
\* they are and nothing is matched; a '#' toggles the embedded flag and
\* leaves the string open; the string is closed exactly when the character
\* is its own delimiter and the flag is false; any other character, the
\* other quote included, leaves the string context as it is.
C27_InsideStringOnlyStringContextMoves ==
    [][StepInString =>
          LET before == result.state.stringContext
              after == result'.state.stringContext
              char == doc[result.offset + 1]
          IN /\ Counters(result'.state) = Counters(result.state)
             /\ ~result'.state.found
             /\ char = "#" => after = [before EXCEPT !.embeddedCFML = ~before.embeddedCFML]
             /\ ~after.inString <=> Closes(before, char)
             /\ (char # "#" /\ ~Closes(before, char)) => after = before]_vars

\* Inside a string whose embedded flag is set the loop has just read the
\* string's own delimiter and then a bracket, a target or the other quote,
\* and the string is still open.
C27_Witness ==
    /\ pc = "scanning" /\ call.op \in {"getNextCharacterPosition", "getClosingPosition"}
    /\ result.offset = 4
    /\ doc[2] = "#" /\ doc[3] = doc[1] /\ doc[4] \in {"(", ")", ",", "'"}
    /\ result.state.stringContext = [inString |-> TRUE, activeStringDelimiter |-> "\"", embeddedCFML |-> TRUE]
    /\ Counters(result.state) = Counters(IF call.op = "getClosingPosition" THEN ClosingStart
                                         ELSE NextCharacterStart)

InCall == pc = "in call"
CallDone == pc = "returned" /\ call.op = "getCommentRangesStack"

\* Every call returns.
Terminates == InCall ~> CallDone

\* At most one scan is active below the outermost one; that scan is in
\* script mode and was started by a scan in tag mode; a scan in script mode
\* has no cfscript body to start a scan for.
DepthAtMostOne ==
    InCall => /\ Len(result.stack) \in 1..2
              /\ \A d \in 1..Len(result.stack) :
                     result.stack[d].isScript => result.stack[d].cfScriptRanges = <<>>
              /\ Len(result.stack) = 2 => result.stack[2].isScript /\ ~result.stack[1].isScript

\* The value the stack of scans returns is the value of getCommentRanges.
ReturnsCommentRanges ==
    CallDone => result.value = getCommentRanges(doc, call.isScript, call.docRange, call.fast)

BodiesOfCall == IF call.isScript THEN <<>> ELSE getCfScriptRanges(doc, call.docRange)

\* The body lies inside a tag comment of the returned value.
CommentedOutInValue(body) ==
    \E r \in Elems(result.value) : TagStyle(r) /\ containsRange(r, body)

\* C28: every call of getCommentRanges returns; the scans nest at most one
\* deep, a scan in script mode starting none; and a call in tag mode has
\* started exactly one scan in script mode for each cfscript body, in order.
C28_OneScanPerBody ==
    /\ Terminates
    /\ [](DepthAtMostOne /\ ReturnsCommentRanges)
    /\ [](CallDone => result.started = BodiesOfCall)

\* C28 amended: every call of getCommentRanges returns; the scans nest at
\* most one deep, a scan in script mode starting none; and a call in tag
\* mode has started at most one scan in script mode per cfscript body: one
\* for every body in fast mode, and in accurate mode one for every body that
\* does not lie inside a tag comment range of the result.
C28_AtMostOneScanPerBody ==
    /\ Terminates
    /\ [](DepthAtMostOne /\ ReturnsCommentRanges)
    /\ [](CallDone => result.started =
              SelectSeq(BodiesOfCall, LAMBDA body : call.fast \/ ~CommentedOutInValue(body)))

\* A call in tag mode has returned after a scan of each of two cfscript
\* bodies, one of which gave a comment.
C28_Witness ==
    /\ CallDone /\ ~call.isScript
    /\ Len(result.started) = 2 /\ result.started = BodiesOfCall
    /\ result.value # <<>>

\* The component literal of the parsed file, before any attribute is applied.
LiteralOfFile ==
    componentLiteral(doc, env, COMPONENT_PATTERN_exec(doc),
                     COMPONENT_PATTERN_exec(doc).index + Len(COMPONENT_PATTERN_exec(doc).fullPrefix)
                         + Len(COMPONENT_PATTERN_exec(doc).checkTag))

\* C29: whatever the doc comment holds, the returned component has the base
\* name of the file as its name, and the uri, isScript, isInterface,
\* declarationRange and properties computed from the document and the match.
C29_DocBlockKeepsIdentity ==
    (Returned("parseComponent") /\ IsComponent(result)) =>
        /\ result.name = Str(basename(env.fileName, COMPONENT_EXT))
        /\ \A field \in {"uri", "isScript", "isInterface", "declarationRange", "properties"} :
               result[field] = LiteralOfFile[field]

\* The static default of an attribute of the component: absent for
\* initmethod, which the component literal does not list.
HasDefault(component, key) ==
    IF key = "initmethod" THEN key \notin DOMAIN component
    ELSE key \in DOMAIN component
         /\ component[key] = (IF key = "accessors" THEN Bool(FALSE) ELSE Str(<<>>))

\* The merged value of the key is true, for accessors, or not empty.
MergedSet(key) ==
    HasMerged(key) /\ (IF key = "accessors" THEN isTruthy(MergedValue(key)) ELSE MergedValue(key) # <<>>)

\* C30: on the returned component each of displayname, hint, accessors and
\* initmethod has the merged value when the merged attributes hold a true or
\* non-empty one, and its static default when they do not hold the key.
C30_AttributesAppliedOrDefault ==
    (Returned("parseComponent") /\ IsComponent(result)) =>
        \A key \in {"displayname", "hint", "accessors", "initmethod"} :
            /\ MergedSet(key) =>
                   /\ key \in DOMAIN result
                   /\ result[key] = (IF key = "accessors" THEN Bool(TRUE) ELSE Str(MergedValue(key)))
            /\ ~HasMerged(key) => HasDefault(result, key)

\* C31: whatever calls of next() a BackwardIterator has answered, its
\* getPosition() is a position, with a line and a character of at least 0;
\* and getPrecedingIdentifierRange, which hands that position to the word
\* lookup, returns a range or undefined and raises no error.
C31_PositionAlwaysValid ==
    /\ Iterating /\ result.codes # <<>> /\ result.codes[Len(result.codes)] # BOF
           => getPosition(result.iterator) # IllegalArgument
    /\ Returned("getPrecedingIdentifierRange") => result # IllegalArgument

\* The quote left open, going backward, when the beginning of the document
\* is reached; the empty string when none is.
QuoteOpenAtBeginning == IF Top = 0 THEN "" ELSE QuoteAfter(QuoteBefore(1), doc[1])

\* The commas at which the scan has split off an argument: outside the
\* quotes, with the three nestings at zero.
SplittingCommas ==
    {k \in 1..Top :
        /\ Unquoted(k) /\ doc[k] = ","
        /\ NestingBehind(k, "(", ")") = 0
        /\ NestingBehind(k, "{", "}") = 0
        /\ NestingBehind(k, "[", "]") = 0}

\* C32: when the backward scan of readArguments reaches the beginning of the
\* document without meeting an unmatched opening parenthesis, a quote left
\* open included, the call returns the empty list, whatever arguments it had
\* split off.
C32_EmptyListAtBeginningOfDocument ==
    (Returned("readArguments") /\ UnmatchedParens = {}) => result.value = <<>>

C32_Witness ==
    /\ Returned("readArguments") /\ UnmatchedParens = {}
    /\ SplittingCommas # {}
    /\ QuoteOpenAtBeginning # ""
    /\ result.value = <<>>

\* The pairs whose closing character is searched for while the opening one
\* is not.
BracketPairs == {characterPairs[k] : k \in 1..3}
CloserOnlyTargets == {pair \in BracketPairs : pair[2] \in call.char /\ pair[1] \notin call.char}

\* Offsets of the range that hold the character outside a string.
OutsideStringAt(char) ==
    {o \in call.startOffset..(call.endOffset - 1) :
        o < Len(doc) /\ doc[o + 1] = char /\ ~InsideString(doc, call.startOffset, o)}

\* C33: when a closing brace, bracket or parenthesis is searched for and its
\* opening partner is not, an opener of that kind read outside a string is
\* counted and never subtracted again: getNextCharacterPosition returns
\* nothing found behind such an opener, so the result is the position of
\* endOffset unless the scan returned before it reached the opener.
C33_TargetCloserNeverFoundBehindOpener ==
    Returned("getNextCharacterPosition") =>
        \A pair \in CloserOnlyTargets : \A o \in OutsideStringAt(pair[1]) :
            result = positionAt(doc, call.endOffset) \/ OffsetOf(result) <= o

C33_Witness ==
    /\ Returned("getNextCharacterPosition") /\ ~call.includeChar
    /\ result = positionAt(doc, call.endOffset)
    /\ \E pair \in CloserOnlyTargets : \E o \in OutsideStringAt(pair[1]) :
          /\ \A p \in call.startOffset..(o - 1) : doc[p + 1] \notin call.char
          /\ \E p \in OutsideStringAt(pair[2]) : p > o

\* An iteration of the loop of getNextCharacterPosition.
StepOfNextCharacter ==
    /\ pc = "scanning" /\ call.op = "getNextCharacterPosition"
    /\ result'.offset = result.offset + 1

\* C34: the counters of getNextCharacterPosition go below zero: a closing
\* brace, bracket or parenthesis that is not searched for, read outside a
\* string with its counter at zero, leaves the counter at -1; a counter below
\* zero moves up only by an opener of its kind read outside a string; and a
\* character is matched only in an iteration that starts with all three
\* counters at zero.
C34_CountersNotClampedAtZero ==
    [][StepOfNextCharacter =>
          LET before == result.state
              after == result'.state
              char == doc[result.offset + 1]
          IN /\ \A k \in 1..3 :
                   /\ (/\ ~before.stringContext.inString
                       /\ char = characterPairs[k][2] /\ char \notin call.char
                       /\ before.pairContext[k] = 0) => after.pairContext[k] = -1
                   /\ (before.pairContext[k] < 0 /\ after.pairContext[k] # before.pairContext[k]) =>
                          /\ ~before.stringContext.inString
                          /\ \/ char = characterPairs[k][1] /\ after.pairContext[k] = before.pairContext[k] + 1
                             \/ char = characterPairs[k][2] /\ after.pairContext[k] = before.pairContext[k] - 1
             /\ after.found => /\ \A k \in 1..3 : before.pairContext[k] = 0
                               /\ char \in call.char]_vars

\* A closer took its counter to -1, the target that follows was passed
\* over, an opener of the same kind brought the counter back to zero, and the
\* target after it is matched.
C34_Witness ==
    /\ pc = "scanning" /\ call.op = "getNextCharacterPosition"
    /\ result.offset = 4 /\ result.state.found
    /\ \E k \in 1..3 : /\ doc[1] = characterPairs[k][2] /\ doc[3] = characterPairs[k][1]
                       /\ {doc[1], doc[3]} \cap call.char = {}
    /\ doc[2] \in call.char /\ doc[4] \in call.char

\* C35: for a closing character that is its own opening character, a quote
\* or '#', getClosingPosition finds no close in any text from any
\* initialOffset and returns the position of initialOffset.
C35_SelfPairedNeverCloses ==
    (Returned("getClosingPosition") /\ call.closingChar \in SelfPairedChars) =>
        result = positionAt(doc, call.initialOffset)

\* The closing character occurs outside a string behind initialOffset, and
\* the position of initialOffset comes back.
C35_Witness ==
    /\ Returned("getClosingPosition") /\ call.closingChar \in SelfPairedChars
    /\ \E p \in (call.initialOffset + 1)..(Len(doc) - 1) :
          doc[p + 1] = call.closingChar /\ ~InsideString(doc, call.initialOffset, p)
    /\ result = positionAt(doc, call.initialOffset)

====
